---- MODULE Spec2Model ----
(***************************************************************************)
(* Model of the rare-disease question answering pipeline.                  *)
(*                                                                         *)
(* Part 1 (specification Spec) is main.py: main() processes the questions  *)
(* one after the other; process_question() obtains the context chunks from *)
(* get_context_from_rag() (the per-disease cache on disk, or a fresh       *)
(* build_question_specific_rag()) and analyses them in list order until    *)
(* answer_agent gives an answer other than "Unclear".                      *)
(***************************************************************************)
EXTENDS Integers, Sequences, FiniteSets, TLC

\* ---------------------------------------------------------------- bounds
NumQuestions == 2        \* questions main() processes (range(20) in the code)
MaxResults == 2          \* results one search returns (max_results=5 in the code)
MaxChunksPerDoc == 11    \* chunks process_search_results makes of a long document
MaxBadEmbeddings == 1    \* chunks of one build whose embedding step fails
NumSources == 3          \* engine: sources the providers can return
MaxPerRound == 2         \* engine: new fragments one retrieval returns
MaxRounds == 3           \* engine: the configured round ceiling
MaxFragments == 3        \* engine: the configured fragment ceiling
MinRoundsThreshold == 2  \* engine: the configured minimum-rounds threshold
MaxStoreChunks == 2      \* store: chunks one build embeds (20 in the code)
MaxInserts == 3          \* store: insert_chunk calls
MaxRankLen == 3          \* rankers: chunks in the list to rank
MaxText == 2             \* rankers: distinct chunk texts, numbered in string order
MaxSim == 1              \* rankers: distinct similarity values above 0
MaxOracleCalls == 2      \* validation_agent calls of one round
MaxTextLen == 6          \* chunkers: characters of the text
ChunkSize == 4           \* chunkers: the largest size limit
NumUrls == 4             \* crawl_parallel: urls to crawl
MaxConcurrent == 2       \* crawl_parallel: max_concurrent (5 by default)
MaxDocs == 2             \* search.py: documents of one response, and distinct titles
MaxArticles == 3         \* pubmed.py: articles fetched
MaxYears == 2            \* pubmed.py: distinct publication years
MaxPmids == 2            \* pubmed.py: distinct PMIDs
BaselineQuestions == 3   \* baseline.py: questions of the loop (range(100) in the code)
MaxGatherDocs == 3       \* crawler.py: documents of one FindZebra response (rows: 3)
MaxContents == 2         \* crawler.py: distinct texts of documents and stored chunks

\* ------------------------------------------------------ program constants
KeywordLimit == 3        \* unique_keywords[:3]
BuildLimit == 20         \* all_chunks[:20]
TopK == 10               \* sorted_indices[:10]
EmbeddingDim == 1536     \* len(embedding) != 1536
QueryVariations == 4     \* search.py: the query variations of one search
TopChunks == 3           \* crawler.py: scored_chunks[:3]

URLs == {"u1", "u2"}
Options == {"A", "B", "C", "D"}
Answers == Options \cup {"Unclear"}
NoFile == [url |-> "none", k |-> 0]
NaN == -1

VARIABLES
    idx,               \* main: index of the question being processed
    query_embedding,   \* get_context_from_rag: the embedding of the question's query
    pc,                \* position of the single thread of control
    dirs_exist,        \* data/chunks/<disease> and data/embeddings/<disease> exist
    chunk_files,       \* chunk_<i>.json of the disease: i -> chunk record or NoFile
    embedding_files,   \* embedding_<i>.npy: i -> the chunk whose vector it holds, or NoFile
    unique_keywords,   \* build: number of keywords still to search
    search_results,    \* build: results of the current search still to process
    processed_urls,    \* build: processed_urls
    rag_chunks,        \* build: all_chunks
    i_build,           \* build: enumerate index i of the embedding loop
    formatted_chunks,  \* build: formatted_chunks
    bad_embeddings,    \* build: embedding steps that failed so far
    all_chunks,        \* process_question: all_chunks
    chunks_analyzed,   \* process_question: chunks_analyzed
    final_answer,      \* process_question: final_answer
    answer,            \* process_question: answer, what answer_agent returned last
    counter_evidence,  \* process_question: the options research_agent reported
                       \* counter-evidence for (analysis), kept with a final answer
    classified,        \* history: chunks handed to research_agent for this question
    chunked_urls,      \* history: urls handed to process_search_results in this build
    builds,            \* history: calls of build_question_specific_rag for this question
    from_cache,        \* history: all_chunks was served from the cache
    \* -- the elimination engine of the design document (specification SpecEngine)
    state,             \* ACTIVE, RESET, CONVERGED or EXHAUSTED
    epc,               \* position of the engine inside its round
    live,              \* the live candidates
    live_start,        \* the live candidates when the round started
    excluded,          \* the source identifiers analysed so far
    round,             \* rounds completed
    fragments,         \* fragments analysed (the fragment budget counter)
    queue,             \* the ranked new fragments of the round still to classify
    retried,           \* the round's retrieval was already broadened once
    pending,           \* candidates whose classifier call is in flight
    verdicts,          \* the verdicts returned for the current fragment
    first_true,        \* the candidate whose true verdict came back first
    got_false,         \* history: candidates that got a false verdict this round
    eanswer,           \* the final answer
    justification,     \* how the final answer was reached
    \* -- population of the cache by two question instances (SpecStore)
    disk_chunks,       \* chunk_<i>.json of the disease: i -> content, or Absent
    disk_embeddings,   \* embedding_<i>.npy: i -> the vector stored, or Absent
    b_pc,              \* instance -> position in build_question_specific_rag
    b_chunks,          \* instance -> all_chunks[:20] of its build
    b_i,               \* instance -> enumerate index i
    b_embedding,       \* instance -> the embedding of the chunk at i
    b_formatted,       \* instance -> the indices whose chunk it returns
    b_dropped,         \* history: instance -> indices it skipped at the embedding
    first_write,       \* history: i -> content of the first write of chunk_<i>.json
    last_write,        \* history: i -> content of the latest write of chunk_<i>.json
    save_failed,       \* history: an np.save raised
    content_chunks,    \* the Supabase table of insert_chunk: a set of rows
    first_insert,      \* history: chunk_number -> content of the first insert_chunk call
    last_insert,       \* history: chunk_number -> content of the latest insert_chunk call
    inserts,           \* insert_chunk calls made
    \* -- build_rag of rag.py and search_duckduckgo (SpecRag)
    rag_pc,            \* position in build_rag
    rag_urls,          \* urls crawl_parallel still has to crawl
    rag_crawled,       \* crawled_results: the documents crawled with success
    rag_unsuccessful,  \* history: urls whose crawl ended without success
    rag_cause,         \* history: what made build_rag return early
    rag_return,        \* what build_rag returned
    ddg_pc,            \* position in search_duckduckgo
    ddg_results,       \* search results still to fetch
    ddg_formatted,     \* formatted_results
    ddg_cause,         \* history: what made search_duckduckgo return early
    \* -- the two rankers applied to one list (SpecRank)
    rk_chunks,         \* the chunks to rank, in insertion order
    rk_ranked,         \* rank_chunks_by_similarity: positions in ranked order
    rk_sorted_indices, \* get_context_from_rag: np.argsort(similarities)[::-1]
    \* -- validation_agent called for the pairs of one round (SpecOracle)
    va_pc,             \* position in the round of calls
    va_k,              \* calls that returned
    va_response,       \* what llm_chat returned to validation_agent
    va_results,        \* the verdicts validation_agent returned, in order
    \* -- the two chunk_text functions applied to one text (SpecChunk)
    ct_pc,             \* position in the chunk_text that runs
    ct_text,           \* the text given to chunk_text
    ct_size,           \* chunk_size / max_size
    ct_start,          \* crawler.chunk_text: start
    ct_chunks,         \* chunks
    ct_cuts,           \* history: the positions where crawler.chunk_text cut the text
    ct_paragraphs,     \* rag.chunk_text: paragraphs still to process
    ct_current,        \* rag.chunk_text: current_chunk
    ct_current_size,   \* rag.chunk_text: current_size
    \* -- crawl_parallel with its semaphore (SpecCrawl)
    cp_pc,             \* position of crawl_parallel
    tasks,             \* position of each process_url task
    semaphore,         \* the value of asyncio.Semaphore(max_concurrent)
    results,           \* results, in the order of completion
    \* -- search_findzebra of search.py (SpecSearch)
    sf_pc,             \* position of search_findzebra
    sf_variation,      \* query variations already tried
    all_results,       \* all_results
    seen_urls,         \* seen_urls
    sf_failed,         \* history: the variations whose request or response raised
    sf_delivered,      \* history: the source urls of the documents the loop read
    sf_duplicate,      \* history: a document with a seen source url was skipped
    \* -- the end of search_pubmed_and_get_urls (SpecPubmed)
    pm_pc,             \* position in search_pubmed_and_get_urls
    articles,          \* articles, as fetched and then as sorted
    unique_articles,   \* unique_articles
    \* -- the question loops of baseline.py and main.py with their CSV file (SpecBaseline)
    bl_pc,             \* which script runs and where it is
    bl_idx,            \* idx of the loop
    bl_results,        \* results: the answers appended so far
    bl_csv,            \* the result rows of the CSV file on disk
    \* -- gather_context_for_question of crawler.py (SpecGather)
    gc_pc,             \* position in gather_context_for_question
    gc_keyword_score,  \* calculate_keyword_score of each stored content, for the extracted keywords
    gc_docs,           \* the FindZebra documents of the response
    gc_i,              \* documents already processed
    scored_chunks,     \* scored_chunks
    top_chunks         \* top_chunks, whose contents are returned

vars == <<idx, query_embedding, pc, dirs_exist, chunk_files, embedding_files, unique_keywords,
          search_results, processed_urls, rag_chunks, i_build, formatted_chunks,
          bad_embeddings, all_chunks, chunks_analyzed, final_answer, answer,
          counter_evidence, classified, chunked_urls, builds, from_cache,
          state, epc, live, live_start, excluded, round, fragments, queue,
          retried, pending, verdicts, first_true, got_false, eanswer,
          justification,
          disk_chunks, disk_embeddings, b_pc, b_chunks, b_i, b_embedding,
          b_formatted, b_dropped, first_write, last_write, save_failed,
          content_chunks, first_insert, last_insert, inserts,
          rag_pc, rag_urls, rag_crawled, rag_unsuccessful, rag_cause,
          rag_return, ddg_pc, ddg_results, ddg_formatted, ddg_cause,
          rk_chunks, rk_ranked, rk_sorted_indices,
          va_pc, va_k, va_response, va_results,
          ct_pc, ct_text, ct_size, ct_start, ct_chunks, ct_cuts, ct_paragraphs, ct_current, ct_current_size,
          cp_pc, tasks, semaphore, results,
          sf_pc, sf_variation, all_results, seen_urls, sf_failed, sf_delivered, sf_duplicate,
          pm_pc, articles, unique_articles,
          bl_pc, bl_idx, bl_results, bl_csv,
          gc_pc, gc_keyword_score, gc_docs, gc_i, scored_chunks, top_chunks>>

cacheVars == <<dirs_exist, chunk_files, embedding_files>>
buildVars == <<unique_keywords, search_results, processed_urls, rag_chunks,
               i_build, formatted_chunks, bad_embeddings>>
questionVars == <<all_chunks, chunks_analyzed, final_answer, answer, counter_evidence>>
historyVars == <<classified, chunked_urls, builds, from_cache>>
mainVars == <<idx, query_embedding, pc, cacheVars, buildVars, questionVars, historyVars>>
engineVars == <<state, epc, live, live_start, excluded, round, fragments, queue,
                retried, pending, verdicts, first_true, got_false, eanswer,
                justification>>
storeVars == <<disk_chunks, disk_embeddings, b_pc, b_chunks, b_i, b_embedding,
               b_formatted, b_dropped, first_write, last_write, save_failed,
               content_chunks, first_insert, last_insert, inserts>>
ragVars == <<rag_pc, rag_urls, rag_crawled, rag_unsuccessful, rag_cause,
             rag_return, ddg_pc, ddg_results, ddg_formatted, ddg_cause>>
rankVars == <<rk_chunks, rk_ranked, rk_sorted_indices>>
oracleVars == <<va_pc, va_k, va_response, va_results>>
chunkVars == <<ct_pc, ct_text, ct_size, ct_start, ct_chunks, ct_cuts, ct_paragraphs, ct_current, ct_current_size>>
crawlVars == <<cp_pc, tasks, semaphore, results>>
searchVars == <<sf_pc, sf_variation, all_results, seen_urls, sf_failed, sf_delivered, sf_duplicate>>
pubmedVars == <<pm_pc, articles, unique_articles>>
baselineVars == <<bl_pc, bl_idx, bl_results, bl_csv>>
gatherVars == <<gc_pc, gc_keyword_score, gc_docs, gc_i, scored_chunks, top_chunks>>
nonMainVars == <<engineVars, storeVars, ragVars, rankVars, oracleVars, chunkVars, crawlVars, searchVars, pubmedVars, baselineVars, gatherVars>>
nonEngineVars == <<mainVars, storeVars, ragVars, rankVars, oracleVars, chunkVars, crawlVars, searchVars, pubmedVars, baselineVars, gatherVars>>
nonStoreVars == <<mainVars, engineVars, ragVars, rankVars, oracleVars, chunkVars, crawlVars, searchVars, pubmedVars, baselineVars, gatherVars>>
nonRagVars == <<mainVars, engineVars, storeVars, rankVars, oracleVars, chunkVars, crawlVars, searchVars, pubmedVars, baselineVars, gatherVars>>
nonRankVars == <<mainVars, engineVars, storeVars, ragVars, oracleVars, chunkVars, crawlVars, searchVars, pubmedVars, baselineVars, gatherVars>>
nonOracleVars == <<mainVars, engineVars, storeVars, ragVars, rankVars, chunkVars, crawlVars, searchVars, pubmedVars, baselineVars, gatherVars>>
nonChunkVars == <<mainVars, engineVars, storeVars, ragVars, rankVars, oracleVars, crawlVars, searchVars, pubmedVars, baselineVars, gatherVars>>
nonCrawlVars == <<mainVars, engineVars, storeVars, ragVars, rankVars, oracleVars, chunkVars, searchVars, pubmedVars, baselineVars, gatherVars>>
nonSearchVars == <<mainVars, engineVars, storeVars, ragVars, rankVars, oracleVars, chunkVars, crawlVars, pubmedVars, baselineVars, gatherVars>>
nonPubmedVars == <<mainVars, engineVars, storeVars, ragVars, rankVars, oracleVars, chunkVars, crawlVars, searchVars, baselineVars, gatherVars>>
nonBaselineVars == <<mainVars, engineVars, storeVars, ragVars, rankVars, oracleVars, chunkVars, crawlVars, searchVars, pubmedVars, gatherVars>>
nonGatherVars == <<mainVars, engineVars, storeVars, ragVars, rankVars, oracleVars, chunkVars, crawlVars, searchVars, pubmedVars, baselineVars>>

Min(a, b) == IF a < b THEN a ELSE b

\* ------------------------------------------------------------------ Init
Alphabet == <<"A", "B", "C", "D">>
Candidates == {Alphabet[i] : i \in 1..Len(Alphabet)}
Verdicts == {"true", "false", "unclear"}
None == "none"
NoVerdicts == [c \in Candidates |-> None]

\* The engine before its first round: every candidate live, nothing analysed.
EngineInit ==
    /\ state = "ACTIVE"
    /\ epc = "check"
    /\ live = Candidates
    /\ live_start = Candidates
    /\ excluded = {}
    /\ round = 0
    /\ fragments = 0
    /\ queue = <<>>
    /\ retried = FALSE
    /\ pending = {}
    /\ verdicts = NoVerdicts
    /\ first_true = None
    /\ got_false = {}
    /\ eanswer = "unclear"
    /\ justification = None

MainInit ==
    /\ idx = 0
    /\ query_embedding = 0
    /\ pc = "main"
    /\ dirs_exist = FALSE
    /\ chunk_files = [i \in 0..(BuildLimit - 1) |-> NoFile]
    /\ embedding_files = [i \in 0..(BuildLimit - 1) |-> NoFile]
    /\ unique_keywords = 0
    /\ search_results = <<>>
    /\ processed_urls = {}
    /\ rag_chunks = <<>>
    /\ i_build = 0
    /\ formatted_chunks = <<>>
    /\ bad_embeddings = 0
    /\ all_chunks = <<>>
    /\ chunks_analyzed = 0
    /\ final_answer = "Unclear"
    /\ answer = "Unclear"
    /\ counter_evidence = {}
    /\ classified = <<>>
    /\ chunked_urls = <<>>
    /\ builds = 0
    /\ from_cache = FALSE

Instances == {"p", "q"}
Contents == {"x", "y"}
Absent == "absent"
Keys == 0..(MaxStoreChunks - 1)
NoEmbedding == [of |-> Absent, dim |-> 0]

\* An empty cache, both instances before their build, an empty table.
StoreInit ==
    /\ disk_chunks = [k \in Keys |-> Absent]
    /\ disk_embeddings = [k \in Keys |-> NoEmbedding]
    /\ b_pc = [b \in Instances |-> "idle"]
    /\ b_chunks = [b \in Instances |-> <<>>]
    /\ b_i = [b \in Instances |-> 0]
    /\ b_embedding = [b \in Instances |-> NoEmbedding]
    /\ b_formatted = [b \in Instances |-> <<>>]
    /\ b_dropped = [b \in Instances |-> {}]
    /\ first_write = [k \in Keys |-> Absent]
    /\ last_write = [k \in Keys |-> Absent]
    /\ save_failed = FALSE
    /\ content_chunks = {}
    /\ first_insert = [k \in Keys |-> Absent]
    /\ last_insert = [k \in Keys |-> Absent]
    /\ inserts = 0

Unset == <<0>>

\* build_rag and search_duckduckgo before their call.
RagInit ==
    /\ rag_pc = "start"
    /\ rag_urls = {}
    /\ rag_crawled = <<>>
    /\ rag_unsuccessful = {}
    /\ rag_cause = "none"
    /\ rag_return = <<>>
    /\ ddg_pc = "start"
    /\ ddg_results = <<>>
    /\ ddg_formatted = <<>>
    /\ ddg_cause = "none"

\* The rankers before their call, with nothing to rank.
RankIdle ==
    /\ rk_chunks = <<>>
    /\ rk_ranked = Unset
    /\ rk_sorted_indices = Unset

\* validation_agent before its first call of the round.
NoResponse == [valid |-> "none", explanation |-> "none"]
OracleInit ==
    /\ va_pc = "call"
    /\ va_k = 0
    /\ va_response = NoResponse
    /\ va_results = <<>>

\* The chunkers before their call, with an empty text.
ChunkIdle ==
    /\ ct_pc = "start"
    /\ ct_text = <<>>
    /\ ct_size = ChunkSize
    /\ ct_start = 0
    /\ ct_chunks = <<>>
    /\ ct_cuts = {}
    /\ ct_paragraphs = <<>>
    /\ ct_current = <<>>
    /\ ct_current_size = 0

\* crawl_parallel after gather has created one process_url task for each url.
CrawlUrls == 1..NumUrls
CrawlInit ==
    /\ cp_pc = "gather"
    /\ tasks = [u \in CrawlUrls |-> "waiting"]
    /\ semaphore = MaxConcurrent
    /\ results = <<>>

\* search_findzebra of search.py before its first query variation.
SearchInit ==
    /\ sf_pc = "loop"
    /\ sf_variation = 0
    /\ all_results = <<>>
    /\ seen_urls = {}
    /\ sf_failed = {}
    /\ sf_delivered = {}
    /\ sf_duplicate = FALSE

\* search_pubmed_and_get_urls with no article fetched.
PubmedIdle ==
    /\ pm_pc = "sort"
    /\ articles = <<>>
    /\ unique_articles = <<>>

\* The scripts before the loop: results = [], no CSV file written.
BaselineInit ==
    /\ bl_pc = "start"
    /\ bl_idx = 0
    /\ bl_results = <<>>
    /\ bl_csv = <<>>

\* gather_context_for_question before extract_keywords.
GatherInit ==
    /\ gc_pc = "keywords"
    /\ gc_keyword_score = <<>>
    /\ gc_docs = <<>>
    /\ gc_i = 0
    /\ scored_chunks = <<>>
    /\ top_chunks = <<>>

Init == MainInit /\ EngineInit /\ StoreInit /\ RagInit /\ RankIdle /\ OracleInit /\ ChunkIdle /\ CrawlInit /\ SearchInit /\ PubmedIdle /\ BaselineInit /\ GatherInit

\* The cosine similarity of the query vector and a stored vector, as an integer
\* score; NaN when the stored vector is the zero vector.  The environment
\* picks one of two embedding behaviours.
SimilarityModes == 0..1
Similarity(mode, c) ==
    CASE mode = 0 -> c.k % 3
      [] mode = 1 -> IF c.k = MaxChunksPerDoc THEN NaN ELSE 1

\* main(): the next question is handed to process_question, which sets up its
\* locals (reformulate_options_agent may raise: nothing catches it).
StartQuestion ==
    /\ pc = "main"
    /\ idx < NumQuestions
    /\ pc' = "context"
    /\ all_chunks' = <<>>
    /\ chunks_analyzed' = 0
    /\ final_answer' = "Unclear"
    /\ answer' = "Unclear"
    /\ counter_evidence' = {}
    /\ classified' = <<>>
    /\ chunked_urls' = <<>>
    /\ builds' = 0
    /\ from_cache' = FALSE
    /\ \E mode \in SimilarityModes : query_embedding' = mode
    /\ UNCHANGED <<idx, cacheVars, buildVars>>
    /\ UNCHANGED nonMainVars

\* ------------------------------------------------------------ retrieval
\* The chunks process_search_results makes of the document at url u.
ChunksOf(u, n) == [k \in 1..n |-> [url |-> u, k |-> k]]

\* A document yields no chunk, one chunk or many.
ChunkCounts == {0, 1, MaxChunksPerDoc}

\* What one search_duckduckgo call returns: a list of result urls, possibly
\* with repeats; the empty list is also what it returns when the provider fails.
ResultLists == UNION {[1..n -> URLs] : n \in 0..MaxResults}

\* Mutant of IsNewUrl: the processed_urls test is dropped.
IsNewUrlAlways(u) == TRUE

\* if result['url'] not in processed_urls
IsNewUrl(u) == u \notin processed_urls

\* Mutant of Limited: the [:20] slice is dropped.
Unlimited(s) == s

\* all_chunks[:20]
Limited(s) == SubSeq(s, 1, Min(Len(s), BuildLimit))


\* The embedding files that have a chunk file and a similarity that is not NaN.
ValidEntries(mode) ==
    {i \in 0..(BuildLimit - 1) :
        /\ embedding_files[i] # NoFile
        /\ chunk_files[i] # NoFile
        /\ Similarity(mode, embedding_files[i]) # NaN}

\* np.argsort(similarities)[::-1]: descending similarity; the reversal puts
\* later list positions first among equal similarities (glob is taken to list
\* the files by ascending index).
RankKey(mode, i) == Similarity(mode, embedding_files[i]) * BuildLimit + i

SortedIndices(mode, S) ==
    [n \in 1..Cardinality(S) |->
        CHOOSE i \in S :
            Cardinality({j \in S : RankKey(mode, j) > RankKey(mode, i)}) = n - 1]

\* sorted_indices[:10]
AllIndices(s) == s
TopIndices(s) == SubSeq(s, 1, Min(Len(s), TopK))

\* The formatted chunks get_context_from_rag returns from the cache.
CachedChunks(mode) ==
    LET top == TopIndices(SortedIndices(mode, ValidEntries(mode)))
    IN  [n \in 1..Len(top) |-> chunk_files[top[n]]]

\* build_question_specific_rag is entered: the directories are made and
\* search_agent gives the keywords.
EnterBuild ==
    /\ dirs_exist' = TRUE
    /\ \E n \in 0..KeywordLimit : unique_keywords' = n
    /\ search_results' = <<>>
    /\ processed_urls' = {}
    /\ rag_chunks' = <<>>
    /\ i_build' = 0
    /\ formatted_chunks' = <<>>
    /\ bad_embeddings' = 0
    /\ chunked_urls' = <<>>
    /\ builds' = builds + 1
    /\ pc' = "search"
    /\ UNCHANGED <<idx, query_embedding, chunk_files, embedding_files, questionVars, classified, from_cache>>
    /\ UNCHANGED nonMainVars

\* get_context_from_rag: no directory for the disease yet.
ContextNoCache ==
    /\ pc = "context"
    /\ ~dirs_exist
    /\ EnterBuild

\* get_context_from_rag: the directories exist but hold no usable entry.
ContextCacheEmpty ==
    /\ pc = "context"
    /\ dirs_exist
    /\ ValidEntries(query_embedding) = {}
    /\ EnterBuild

\* get_context_from_rag: the top cached chunks are returned.
ContextFromCache ==
    /\ pc = "context"
    /\ dirs_exist
    /\ ValidEntries(query_embedding) # {}
    /\ all_chunks' = CachedChunks(query_embedding)
    /\ from_cache' = TRUE
    /\ pc' = "loop"
    /\ UNCHANGED <<idx, query_embedding, cacheVars, buildVars, chunks_analyzed, final_answer,
                   answer, counter_evidence, classified, chunked_urls, builds>>
    /\ UNCHANGED nonMainVars

\* A collaborator called before the loop raises (reformulate_options_agent,
\* get_embedding of the query, search_agent): nothing catches it.
ContextRaises ==
    /\ pc = "context"
    /\ pc' = "aborted"
    /\ UNCHANGED <<idx, query_embedding, cacheVars, buildVars, questionVars, historyVars>>
    /\ UNCHANGED nonMainVars

\* for keyword in unique_keywords[:3]: one search_duckduckgo call.
SearchKeyword ==
    /\ pc = "search"
    /\ unique_keywords > 0
    /\ unique_keywords' = unique_keywords - 1
    /\ \E rs \in ResultLists : search_results' = rs
    /\ pc' = "results"
    /\ UNCHANGED <<idx, query_embedding, cacheVars, processed_urls, rag_chunks, i_build,
                   formatted_chunks, bad_embeddings, questionVars, historyVars>>
    /\ UNCHANGED nonMainVars

\* for result in duckduckgo_results: a new url is chunked, a seen one skipped.
ProcessResult ==
    /\ pc = "results"
    /\ search_results # <<>>
    /\ LET u == Head(search_results) IN
         IF IsNewUrl(u)
         THEN /\ processed_urls' = processed_urls \cup {u}
              /\ \E n \in ChunkCounts : rag_chunks' = rag_chunks \o ChunksOf(u, n)
              /\ chunked_urls' = Append(chunked_urls, u)
         ELSE UNCHANGED <<processed_urls, rag_chunks, chunked_urls>>
    /\ search_results' = Tail(search_results)
    /\ UNCHANGED <<idx, query_embedding, pc, cacheVars, unique_keywords, i_build, formatted_chunks,
                   bad_embeddings, questionVars, classified, builds, from_cache>>
    /\ UNCHANGED nonMainVars

EndResults ==
    /\ pc = "results"
    /\ search_results = <<>>
    /\ pc' = "search"
    /\ UNCHANGED <<idx, query_embedding, cacheVars, buildVars, questionVars, historyVars>>
    /\ UNCHANGED nonMainVars

SearchDone ==
    /\ pc = "search"
    /\ unique_keywords = 0
    /\ pc' = "embed"
    /\ UNCHANGED <<idx, query_embedding, cacheVars, buildVars, questionVars, historyVars>>
    /\ UNCHANGED nonMainVars

\* One iteration of the embedding loop with a 1536-long embedding: the chunk
\* file and the embedding file are written and the chunk is returned.
EmbedChunk ==
    /\ pc = "embed"
    /\ i_build < Len(Limited(rag_chunks))
    /\ LET chunk == rag_chunks[i_build + 1] IN
         /\ chunk_files' = [chunk_files EXCEPT ![i_build] = chunk]
         /\ embedding_files' = [embedding_files EXCEPT ![i_build] = chunk]
         /\ formatted_chunks' = Append(formatted_chunks, chunk)
    /\ i_build' = i_build + 1
    /\ UNCHANGED <<idx, query_embedding, pc, dirs_exist, unique_keywords, search_results,
                   processed_urls, rag_chunks, bad_embeddings, questionVars,
                   historyVars>>
    /\ UNCHANGED nonMainVars

\* get_embedding raises or the embedding is not 1536 long: the chunk is skipped
\* and nothing is written.  (Writes to the disk are taken to succeed.)
EmbedInvalid ==
    /\ pc = "embed"
    /\ i_build < Len(Limited(rag_chunks))
    /\ bad_embeddings < MaxBadEmbeddings
    /\ bad_embeddings' = bad_embeddings + 1
    /\ i_build' = i_build + 1
    /\ UNCHANGED <<idx, query_embedding, pc, cacheVars, unique_keywords, search_results,
                   processed_urls, rag_chunks, formatted_chunks, questionVars,
                   historyVars>>
    /\ UNCHANGED nonMainVars

\* The index is saved and the formatted chunks are returned to process_question.
BuildReturn ==
    /\ pc = "embed"
    /\ i_build = Len(Limited(rag_chunks))
    /\ all_chunks' = formatted_chunks
    /\ pc' = "loop"
    /\ processed_urls' = {}
    /\ rag_chunks' = <<>>
    /\ i_build' = 0
    /\ formatted_chunks' = <<>>
    /\ bad_embeddings' = 0
    /\ UNCHANGED <<idx, query_embedding, cacheVars, unique_keywords, search_results, chunks_analyzed,
                   final_answer, answer, counter_evidence, historyVars>>
    /\ UNCHANGED nonMainVars

\* ------------------------------------------------------- process_question
\* if answer != "Unclear"
Decisive(a) == a # "Unclear"

\* What research_agent may report as counter_evidence_by_option: against no
\* option, against one option, or against every option.
Analyses == {{}, {"A"}, {"B"}, Options}

\* Mutant of AnalyzeChunk: an answer for an option research_agent reported
\* counter-evidence for is dropped and the loop goes on.
AnalyzeChunkVeto ==
    /\ pc = "loop"
    /\ chunks_analyzed < Len(all_chunks)
    /\ classified' = Append(classified, all_chunks[chunks_analyzed + 1])
    /\ chunks_analyzed' = chunks_analyzed + 1
    /\ \E a \in Answers, analysis \in Analyses :
          /\ answer' = a
          /\ IF Decisive(a) /\ a \notin analysis
             THEN /\ final_answer' = a
                  /\ counter_evidence' = analysis
                  /\ pc' = "return"
             ELSE UNCHANGED <<final_answer, counter_evidence, pc>>
    /\ UNCHANGED <<idx, query_embedding, cacheVars, buildVars, all_chunks, chunked_urls, builds,
                   from_cache>>
    /\ UNCHANGED nonMainVars

\* Mutant of AnalyzeChunk: chunks_analyzed is counted after the break, so the
\* chunk that gave the decisive answer is not counted.
AnalyzeChunkCountLate ==
    /\ pc = "loop"
    /\ chunks_analyzed < Len(all_chunks)
    /\ classified' = Append(classified, all_chunks[chunks_analyzed + 1])
    /\ \E a \in Answers, analysis \in Analyses :
          /\ answer' = a
          /\ IF Decisive(a)
             THEN /\ final_answer' = a
                  /\ counter_evidence' = analysis
                  /\ pc' = "return"
                  /\ UNCHANGED chunks_analyzed
             ELSE /\ chunks_analyzed' = chunks_analyzed + 1
                  /\ UNCHANGED <<final_answer, counter_evidence, pc>>
    /\ UNCHANGED <<idx, query_embedding, cacheVars, buildVars, all_chunks, chunked_urls, builds,
                   from_cache>>
    /\ UNCHANGED nonMainVars

\* Mutant of AnalyzeChunk: the break after a decisive answer is missing.
AnalyzeChunkNoBreak ==
    /\ pc = "loop"
    /\ chunks_analyzed < Len(all_chunks)
    /\ classified' = Append(classified, all_chunks[chunks_analyzed + 1])
    /\ chunks_analyzed' = chunks_analyzed + 1
    /\ \E a \in Answers, analysis \in Analyses :
          /\ answer' = a
          /\ IF Decisive(a)
             THEN /\ final_answer' = a
                  /\ counter_evidence' = analysis
             ELSE UNCHANGED <<final_answer, counter_evidence>>
    /\ UNCHANGED <<idx, query_embedding, pc, cacheVars, buildVars, all_chunks, chunked_urls, builds,
                   from_cache>>
    /\ UNCHANGED nonMainVars

\* One iteration of the loop over all_chunks: research_agent analyses the
\* chunk and answer_agent answers; a decisive answer is final and breaks.
AnalyzeChunk ==
    /\ pc = "loop"
    /\ chunks_analyzed < Len(all_chunks)
    /\ classified' = Append(classified, all_chunks[chunks_analyzed + 1])
    /\ chunks_analyzed' = chunks_analyzed + 1
    /\ \E a \in Answers, analysis \in Analyses :
          /\ answer' = a
          /\ IF Decisive(a)
             THEN /\ final_answer' = a
                  /\ counter_evidence' = analysis
                  /\ pc' = "return"
             ELSE UNCHANGED <<final_answer, counter_evidence, pc>>
    /\ UNCHANGED <<idx, query_embedding, cacheVars, buildVars, all_chunks, chunked_urls, builds,
                   from_cache>>
    /\ UNCHANGED nonMainVars

\* Mutant of AnalyzeRaises: the loop body also runs, and fails, on an empty list.
AnalyzeRaisesOnEmpty ==
    /\ pc = "loop"
    /\ pc' = "aborted"
    /\ UNCHANGED <<idx, query_embedding, cacheVars, buildVars, questionVars, historyVars>>
    /\ UNCHANGED nonMainVars

\* research_agent or answer_agent raises: nothing catches it.
AnalyzeRaises ==
    /\ pc = "loop"
    /\ chunks_analyzed < Len(all_chunks)
    /\ pc' = "aborted"
    /\ UNCHANGED <<idx, query_embedding, cacheVars, buildVars, questionVars, historyVars>>
    /\ UNCHANGED nonMainVars

\* Mutant of LoopEnd: with no answer the question is retrieved and analysed again.
LoopEndRetry ==
    /\ pc = "loop"
    /\ chunks_analyzed = Len(all_chunks)
    /\ pc' = "context"
    /\ all_chunks' = <<>>
    /\ chunks_analyzed' = 0
    /\ classified' = <<>>
    /\ chunked_urls' = <<>>
    /\ builds' = 0
    /\ from_cache' = FALSE
    /\ UNCHANGED <<idx, query_embedding, cacheVars, buildVars, final_answer, answer, counter_evidence>>
    /\ UNCHANGED nonMainVars

\* The loop ran out of chunks.
LoopEnd ==
    /\ pc = "loop"
    /\ chunks_analyzed = Len(all_chunks)
    /\ pc' = "return"
    /\ UNCHANGED <<idx, query_embedding, cacheVars, buildVars, questionVars, historyVars>>
    /\ UNCHANGED nonMainVars

\* process_question returns its record; main appends it and saves the CSV.
\* The locals of process_question end with it.
ReturnResult ==
    /\ pc = "return"
    /\ idx' = idx + 1
    /\ query_embedding' = 0
    /\ pc' = "main"
    /\ all_chunks' = <<>>
    /\ chunks_analyzed' = 0
    /\ final_answer' = "Unclear"
    /\ answer' = "Unclear"
    /\ counter_evidence' = {}
    /\ classified' = <<>>
    /\ chunked_urls' = <<>>
    /\ builds' = 0
    /\ from_cache' = FALSE
    /\ UNCHANGED <<cacheVars, buildVars>>
    /\ UNCHANGED nonMainVars

\* main() has processed every question.
MainDone ==
    /\ pc = "main"
    /\ idx = NumQuestions
    /\ pc' = "finished"
    /\ UNCHANGED <<idx, query_embedding, cacheVars, buildVars, questionVars, historyVars>>
    /\ UNCHANGED nonMainVars

Next ==
    \/ StartQuestion
    \/ ContextNoCache
    \/ ContextCacheEmpty
    \/ ContextFromCache
    \/ ContextRaises
    \/ SearchKeyword
    \/ ProcessResult
    \/ EndResults
    \/ SearchDone
    \/ EmbedChunk
    \/ EmbedInvalid
    \/ BuildReturn
    \/ AnalyzeChunk
    \/ AnalyzeRaises
    \/ LoopEnd
    \/ ReturnResult
    \/ MainDone

Spec == Init /\ [][Next]_vars

\* ------------------------------------------------- the elimination engine
\* The elimination state machine of the design document (4.3): one question,
\* one engine instance.  Its actions leave the pipeline of main.py alone.
Sources == 1..NumSources

\* retrieve(subject, search_terms, excluded): a ranked list of fragments, one
\* per source, none of them from an excluded source.
RankedLists(new) ==
    {q \in UNION {[1..n -> new] : n \in 0..MaxPerRound} :
        \A i, j \in 1..Len(q) : i # j => q[i] # q[j]}

Rank(c) == CHOOSE i \in 1..Len(Alphabet) : Alphabet[i] = c

\* The verdicts of one fragment applied in alphabetical order: the first
\* candidate holding true is the answer.
WinnerByCompletion(vs) == first_true
Winner(vs) ==
    LET trues == {c \in Candidates : vs[c] = "true"}
    IN  IF trues = {} THEN None
        ELSE CHOOSE c \in trues : \A d \in trues : Rank(c) <= Rank(d)

\* Only a false verdict marks a candidate dead.
DisprovedOrSilent(vs) == {c \in Candidates : vs[c] \in {"false", "unclear"}}
Disproved(vs) == {c \in Candidates : vs[c] = "false"}

\* Step 1: one live candidate after at least one round: elimination.
CheckDemandsEvidence ==
    /\ epc = "check"
    /\ Cardinality(live) = 1 /\ round >= 1
    /\ epc' = "retrieve"
    /\ retried' = FALSE
    /\ live_start' = live
    /\ got_false' = {}
    /\ UNCHANGED <<state, live, excluded, round, fragments, queue, pending,
                   verdicts, first_true, eanswer, justification>>
    /\ UNCHANGED nonEngineVars
CheckConverge ==
    /\ epc = "check"
    /\ Cardinality(live) = 1 /\ round >= 1
    /\ state' = "CONVERGED"
    /\ eanswer' = CHOOSE c \in live : TRUE
    /\ justification' = "selected by elimination"
    /\ epc' = "done"
    /\ UNCHANGED <<live, live_start, excluded, round, fragments, queue,
                   retried, pending, verdicts, first_true, got_false>>
    /\ UNCHANGED nonEngineVars

\* Step 2: otherwise a round starts with a retrieval.
CheckContinue ==
    /\ epc = "check"
    /\ ~(Cardinality(live) = 1 /\ round >= 1)
    /\ epc' = "retrieve"
    /\ retried' = FALSE
    /\ live_start' = live
    /\ got_false' = {}
    /\ UNCHANGED <<state, live, excluded, round, fragments, queue, pending,
                   verdicts, first_true, eanswer, justification>>
    /\ UNCHANGED nonEngineVars

\* retrieve returned new fragments.
Retrieve ==
    /\ epc = "retrieve"
    /\ \E q \in RankedLists(Sources \ excluded) :
        /\ q # <<>>
        /\ queue' = q
    /\ epc' = "classify"
    /\ UNCHANGED <<state, live, live_start, excluded, round, fragments,
                   retried, pending, verdicts, first_true, got_false,
                   eanswer, justification>>
    /\ UNCHANGED nonEngineVars

\* No new fragments and the minimum-rounds threshold is reached: EXHAUSTED.
RetrieveExhausted ==
    /\ epc = "retrieve"
    /\ round >= MinRoundsThreshold
    /\ state' = "EXHAUSTED"
    /\ eanswer' = "unclear"
    /\ epc' = "done"
    /\ UNCHANGED <<live, live_start, excluded, round, fragments, queue,
                   retried, pending, verdicts, first_true, got_false,
                   justification>>
    /\ UNCHANGED nonEngineVars

\* No new fragments below the threshold: the search is broadened once.
RetrieveBroaden ==
    /\ epc = "retrieve"
    /\ round < MinRoundsThreshold
    /\ ~retried
    /\ retried' = TRUE
    /\ UNCHANGED <<state, epc, live, live_start, excluded, round, fragments,
                   queue, pending, verdicts, first_true, got_false, eanswer,
                   justification>>
    /\ UNCHANGED nonEngineVars

\* Still nothing after the broadened search: the round brought no evidence.
RetrieveNothing ==
    /\ epc = "retrieve"
    /\ round < MinRoundsThreshold
    /\ retried
    /\ epc' = "endround"
    /\ UNCHANGED <<state, live, live_start, excluded, round, fragments, queue,
                   retried, pending, verdicts, first_true, got_false, eanswer,
                   justification>>
    /\ UNCHANGED nonEngineVars

\* Step 3: the next fragment in ranked order goes to the classifier, one
\* concurrent call per live candidate; step 5: its source is recorded.
IssueCalls ==
    /\ epc = "classify"
    /\ queue # <<>>
    /\ fragments < MaxFragments
    /\ excluded' = excluded \cup {Head(queue)}
    /\ queue' = Tail(queue)
    /\ fragments' = fragments + 1
    /\ pending' = live
    /\ verdicts' = NoVerdicts
    /\ first_true' = None
    /\ epc' = "calls"
    /\ UNCHANGED <<state, live, live_start, round, retried, got_false,
                   eanswer, justification>>
    /\ UNCHANGED nonEngineVars

\* The round's fragments are used up, or the fragment budget is.
ScanDone ==
    /\ epc = "classify"
    /\ (queue = <<>> \/ fragments >= MaxFragments)
    /\ queue' = <<>>
    /\ epc' = "endround"
    /\ UNCHANGED <<state, live, live_start, excluded, round, fragments,
                   retried, pending, verdicts, first_true, got_false,
                   eanswer, justification>>
    /\ UNCHANGED nonEngineVars

\* One classifier call returns; the calls return in any order.
CompleteCall ==
    /\ epc = "calls"
    /\ \E c \in pending, v \in Verdicts :
        /\ pending' = pending \ {c}
        /\ verdicts' = [verdicts EXCEPT ![c] = v]
        /\ first_true' = IF v = "true" /\ first_true = None
                         THEN c ELSE first_true
        /\ got_false' = IF v = "false" THEN got_false \cup {c} ELSE got_false
    /\ UNCHANGED <<state, epc, live, live_start, excluded, round, fragments,
                   queue, retried, eanswer, justification>>
    /\ UNCHANGED nonEngineVars

\* Steps 3 and 4: every call of the fragment is back and the verdicts are
\* applied: a true verdict decides the question and ends the scan, false
\* verdicts mark their candidates dead.
ApplyVerdicts ==
    /\ epc = "calls"
    /\ pending = {}
    /\ IF Winner(verdicts) # None
       THEN /\ state' = "CONVERGED"
            /\ eanswer' = Winner(verdicts)
            /\ justification' = "direct"
            /\ queue' = <<>>
            /\ epc' = "done"
            /\ UNCHANGED <<live, verdicts, first_true>>
       ELSE /\ live' = live \ Disproved(verdicts)
            /\ epc' = IF live' = {} THEN "endround" ELSE "classify"
            /\ queue' = IF live' = {} THEN <<>> ELSE queue
            /\ verdicts' = NoVerdicts
            /\ first_true' = None
            /\ UNCHANGED <<state, eanswer, justification>>
    /\ UNCHANGED <<live_start, excluded, round, fragments, retried, pending,
                   got_false>>
    /\ UNCHANGED nonEngineVars

\* The round is complete; an emptied live set means RESET.
EndRound ==
    /\ epc = "endround"
    /\ round' = round + 1
    /\ IF live = {}
       THEN state' = "RESET" /\ epc' = "reset"
       ELSE state' = state /\ epc' = "hardstop"
    /\ UNCHANGED <<live, live_start, excluded, fragments, queue, retried,
                   pending, verdicts, first_true, got_false, eanswer,
                   justification>>
    /\ UNCHANGED nonEngineVars

\* RESET: full liveness is restored to the original candidate set.
ResetSkipped ==
    /\ epc = "reset"
    /\ state' = "ACTIVE"
    /\ epc' = "hardstop"
    /\ UNCHANGED <<live, live_start, excluded, round, fragments, queue,
                   retried, pending, verdicts, first_true, got_false,
                   eanswer, justification>>
    /\ UNCHANGED nonEngineVars
Reset ==
    /\ epc = "reset"
    /\ live' = Candidates
    /\ state' = "ACTIVE"
    /\ epc' = "hardstop"
    /\ UNCHANGED <<live_start, excluded, round, fragments, queue, retried,
                   pending, verdicts, first_true, got_false, eanswer,
                   justification>>
    /\ UNCHANGED nonEngineVars

\* Step 6: a ceiling is reached: EXHAUSTED whatever the state.
HardStop ==
    /\ epc = "hardstop"
    /\ (fragments >= MaxFragments \/ round >= MaxRounds)
    /\ state' = "EXHAUSTED"
    /\ eanswer' = "unclear"
    /\ epc' = "done"
    /\ UNCHANGED <<live, live_start, excluded, round, fragments, queue,
                   retried, pending, verdicts, first_true, got_false,
                   justification>>
    /\ UNCHANGED nonEngineVars

NextRound ==
    /\ epc = "hardstop"
    /\ fragments < MaxFragments /\ round < MaxRounds
    /\ epc' = "check"
    /\ UNCHANGED <<state, live, live_start, excluded, round, fragments, queue,
                   retried, pending, verdicts, first_true, got_false, eanswer,
                   justification>>
    /\ UNCHANGED nonEngineVars

NextEngine ==
    \/ CheckConverge
    \/ CheckContinue
    \/ Retrieve
    \/ RetrieveExhausted
    \/ RetrieveBroaden
    \/ RetrieveNothing
    \/ IssueCalls
    \/ ScanDone
    \/ CompleteCall
    \/ ApplyVerdicts
    \/ EndRound
    \/ Reset
    \/ HardStop
    \/ NextRound

SpecEngine == Init /\ [][NextEngine]_vars

\* ------------------------------------------------ population of the cache
\* Lines 81-125 of build_question_specific_rag run by two question instances
\* on the directories of one disease, and insert_chunk of crawler.py on its
\* table.  An instance can be suspended at its external calls (the search,
\* the embedding); nothing suspends it between the write of chunk_<i>.json
\* and the np.save of embedding_<i>.npy.
ChunkLists == UNION {[1..n -> Contents] : n \in 0..MaxStoreChunks}
Dims == {EmbeddingDim, EmbeddingDim - 1}

\* len(embedding) != 1536: the chunk is skipped
AnyEmbedding(e) == TRUE
ValidEmbedding(e) == e.dim = EmbeddingDim

\* embedding_{i}.npy goes with chunk_{i}.json
ShiftedKey(i) == (i + 1) % MaxStoreChunks
EmbeddingKey(i) == i

\* the searches are done: all_chunks[:20] is what the loop will embed
StartBuild(b) ==
    /\ b_pc[b] = "idle"
    /\ inserts = 0
    /\ \E L \in ChunkLists : b_chunks' = [b_chunks EXCEPT ![b] = L]
    /\ b_pc' = [b_pc EXCEPT ![b] = "loop"]
    /\ b_i' = [b_i EXCEPT ![b] = 0]
    /\ b_formatted' = [b_formatted EXCEPT ![b] = <<>>]
    /\ b_dropped' = [b_dropped EXCEPT ![b] = {}]
    /\ UNCHANGED <<disk_chunks, disk_embeddings, b_embedding, first_write,
                   last_write, save_failed, content_chunks, first_insert,
                   last_insert, inserts>>
    /\ UNCHANGED nonStoreVars

\* get_embedding(chunk.content) returns a vector of some dimension; a vector
\* of another dimension than 1536 is skipped (continue), and so is a chunk
\* whose get_embedding raises (except, continue)
GetEmbedding(b) ==
    /\ b_pc[b] = "loop"
    /\ b_i[b] < Len(b_chunks[b])
    /\ \E d \in Dims :
        LET e == [of |-> b_chunks[b][b_i[b] + 1], dim |-> d]
        IN  IF ValidEmbedding(e)
            THEN /\ b_embedding' = [b_embedding EXCEPT ![b] = e]
                 /\ b_pc' = [b_pc EXCEPT ![b] = "store"]
                 /\ UNCHANGED <<b_i, b_dropped>>
            ELSE /\ b_dropped' = [b_dropped EXCEPT ![b] = @ \cup {b_i[b]}]
                 /\ b_i' = [b_i EXCEPT ![b] = @ + 1]
                 /\ UNCHANGED <<b_embedding, b_pc>>
    /\ UNCHANGED <<disk_chunks, disk_embeddings, b_chunks, b_formatted,
                   first_write, last_write, save_failed, content_chunks,
                   first_insert, last_insert, inserts>>
    /\ UNCHANGED nonStoreVars

\* chunk_{i}.json is written, then embedding_{i}.npy, and the chunk is
\* appended to formatted_chunks
StoreChunk(b) ==
    /\ b_pc[b] = "store"
    /\ LET i == b_i[b]
           c == b_chunks[b][i + 1]
       IN  /\ disk_chunks' = [disk_chunks EXCEPT ![i] = c]
           /\ disk_embeddings' =
                  [disk_embeddings EXCEPT ![EmbeddingKey(i)] = b_embedding[b]]
           /\ first_write' = IF first_write[i] = Absent
                             THEN [first_write EXCEPT ![i] = c]
                             ELSE first_write
           /\ last_write' = [last_write EXCEPT ![i] = c]
           /\ b_formatted' = [b_formatted EXCEPT ![b] = Append(@, i)]
    /\ b_i' = [b_i EXCEPT ![b] = @ + 1]
    /\ b_pc' = [b_pc EXCEPT ![b] = "loop"]
    /\ b_embedding' = [b_embedding EXCEPT ![b] = NoEmbedding]
    /\ UNCHANGED <<b_chunks, b_dropped, save_failed, content_chunks,
                   first_insert, last_insert, inserts>>
    /\ UNCHANGED nonStoreVars

\* chunk_{i}.json is written and np.save raises: except, continue
SaveFails(b) ==
    /\ b_pc[b] = "store"
    /\ LET i == b_i[b]
           c == b_chunks[b][i + 1]
       IN  /\ disk_chunks' = [disk_chunks EXCEPT ![i] = c]
           /\ first_write' = IF first_write[i] = Absent
                             THEN [first_write EXCEPT ![i] = c]
                             ELSE first_write
           /\ last_write' = [last_write EXCEPT ![i] = c]
    /\ save_failed' = TRUE
    /\ b_i' = [b_i EXCEPT ![b] = @ + 1]
    /\ b_pc' = [b_pc EXCEPT ![b] = "loop"]
    /\ b_embedding' = [b_embedding EXCEPT ![b] = NoEmbedding]
    /\ UNCHANGED <<disk_embeddings, b_chunks, b_formatted, b_dropped,
                   content_chunks, first_insert, last_insert, inserts>>
    /\ UNCHANGED nonStoreVars

\* the loop is over: index.json is written and formatted_chunks returned
BuildDone(b) ==
    /\ b_pc[b] = "loop"
    /\ b_i[b] = Len(b_chunks[b])
    /\ b_pc' = [b_pc EXCEPT ![b] = "done"]
    /\ UNCHANGED <<disk_chunks, disk_embeddings, b_chunks, b_i, b_embedding,
                   b_formatted, b_dropped, first_write, last_write,
                   save_failed, content_chunks, first_insert, last_insert,
                   inserts>>
    /\ UNCHANGED nonStoreVars

\* insert_chunk: a chunk whose (url, chunk_number) is in the table is left
\* alone, any other is upserted.  The calls are for one url.  crawler.py is
\* a program of its own: a run is of it or of main.py.
Row(n, c) == [chunk_number |-> n, content |-> c, embedding |-> c]
RowsOf(n) == {r \in content_chunks : r.chunk_number = n}
InsertChunkAlways ==
    /\ inserts < MaxInserts
    /\ \A b \in Instances : b_pc[b] = "idle"
    /\ \E n \in Keys, c \in Contents :
        /\ content_chunks' = (content_chunks \ RowsOf(n)) \cup {Row(n, c)}
        /\ first_insert' = IF first_insert[n] = Absent
                           THEN [first_insert EXCEPT ![n] = c]
                           ELSE first_insert
        /\ last_insert' = [last_insert EXCEPT ![n] = c]
    /\ inserts' = inserts + 1
    /\ UNCHANGED <<disk_chunks, disk_embeddings, b_pc, b_chunks, b_i,
                   b_embedding, b_formatted, b_dropped, first_write,
                   last_write, save_failed>>
    /\ UNCHANGED nonStoreVars
InsertChunk ==
    /\ inserts < MaxInserts
    /\ \A b \in Instances : b_pc[b] = "idle"
    /\ \E n \in Keys, c \in Contents :
        /\ content_chunks' =
               IF RowsOf(n) # {}
               THEN content_chunks
               ELSE (content_chunks \ RowsOf(n)) \cup {Row(n, c)}
        /\ first_insert' = IF first_insert[n] = Absent
                           THEN [first_insert EXCEPT ![n] = c]
                           ELSE first_insert
        /\ last_insert' = [last_insert EXCEPT ![n] = c]
    /\ inserts' = inserts + 1
    /\ UNCHANGED <<disk_chunks, disk_embeddings, b_pc, b_chunks, b_i,
                   b_embedding, b_formatted, b_dropped, first_write,
                   last_write, save_failed>>
    /\ UNCHANGED nonStoreVars

NextStore ==
    \/ \E b \in Instances : StartBuild(b)
    \/ \E b \in Instances : GetEmbedding(b)
    \/ \E b \in Instances : StoreChunk(b)
    \/ \E b \in Instances : SaveFails(b)
    \/ \E b \in Instances : BuildDone(b)
    \/ InsertChunk

SpecStore == Init /\ [][NextStore]_vars

\* ---------------------------------------------------------- the rankers
\* A chunk to rank: its similarity to the query and its text (texts are
\* numbered in the order Python compares strings).
ChunkRecs == [sim : 0..MaxSim, text : 1..MaxText]
RankInputs == UNION {[1..n -> ChunkRecs] : n \in 0..MaxRankLen}

\* sorted(zip(similarities, chunks), reverse=True) compares the pairs: by
\* similarity first, by text among equal similarities.
SimOnly(c) == c.sim * (MaxText + 1)
SortKey(c) == c.sim * (MaxText + 1) + c.text

\* The positions of L in the order sorted(..., reverse=True) gives: descending
\* key, and equal keys in their original order (the sort is stable).
SortedReverse(L) ==
    [n \in 1..Len(L) |->
        CHOOSE i \in 1..Len(L) :
            Cardinality({j \in 1..Len(L) :
                \/ SortKey(L[j]) > SortKey(L[i])
                \/ (SortKey(L[j]) = SortKey(L[i]) /\ j < i)}) = n - 1]

\* The orders np.argsort(similarities)[::-1] can give: argsort sorts ascending
\* with a sort that is not stable, so equal similarities come in any order.
IsPermutation(p, n) ==
    /\ Len(p) = n
    /\ \A i \in 1..n : \E m \in 1..n : p[m] = i
ArgsortReversed(L) ==
    {p \in [1..Len(L) -> 1..Len(L)] :
        /\ IsPermutation(p, Len(L))
        /\ \A n, m \in 1..Len(L) : n < m => L[p[n]].sim >= L[p[m]].sim}

\* The list to rank is drawn.
RankInit ==
    /\ MainInit /\ EngineInit /\ StoreInit /\ RagInit /\ OracleInit /\ ChunkIdle /\ CrawlInit /\ SearchInit /\ PubmedIdle /\ BaselineInit /\ GatherInit
    /\ rk_chunks \in RankInputs
    /\ rk_ranked = Unset
    /\ rk_sorted_indices = Unset

\* rank_chunks_by_similarity(chunks, keywords)
RankChunksBySimilarity ==
    /\ rk_ranked = Unset
    /\ rk_ranked' = SortedReverse(rk_chunks)
    /\ UNCHANGED <<rk_chunks, rk_sorted_indices>>
    /\ UNCHANGED nonRankVars

\* sorted_indices = np.argsort(similarities)[::-1]
ArgsortSimilarities ==
    /\ rk_sorted_indices = Unset
    /\ \E p \in ArgsortReversed(rk_chunks) : rk_sorted_indices' = p
    /\ UNCHANGED <<rk_chunks, rk_ranked>>
    /\ UNCHANGED nonRankVars

NextRank ==
    \/ RankChunksBySimilarity
    \/ ArgsortSimilarities

SpecRank == RankInit /\ [][NextRank]_vars

\* ------------------------------------------- build_rag, search_duckduckgo
\* build_rag of rag.py with search_findzebra and crawl_parallel, and
\* search_duckduckgo of duckduckgo_searcher.py; a run is of one or the other.
NoChunk == [sim |-> 0, text |-> 0]
UrlRank(u) == IF u = "u1" THEN 1 ELSE 2

\* chunk_text makes no chunk or one chunk of a crawled document; its text
\* starts with "Source: <url>", so the url decides how the texts compare.
DocChunks(u) == {NoChunk} \cup {[sim |-> s, text |-> UrlRank(u)] : s \in 0..MaxSim}

\* all_chunks of build_rag: the chunks of the crawled documents, in the order
\* the crawls completed.
RagAllChunks ==
    LET docs == SelectSeq(rag_crawled, LAMBDA d : d.chunk # NoChunk)
    IN  [n \in 1..Len(docs) |->
            [sim |-> docs[n].chunk.sim, text |-> docs[n].chunk.text, url |-> docs[n].url]]

\* search_findzebra caught an exception of the request and returned []
RagSearchFails ==
    /\ rag_pc = "start" /\ ddg_pc = "start"
    /\ rag_cause' = "search_failed"
    /\ rag_return' = <<>>
    /\ rag_pc' = "returned"
    /\ UNCHANGED <<rag_urls, rag_crawled, rag_unsuccessful, ddg_pc,
                   ddg_results, ddg_formatted, ddg_cause>>
    /\ UNCHANGED nonRagVars

\* search_findzebra found no document: if not search_results: return []
RagSearchEmpty ==
    /\ rag_pc = "start" /\ ddg_pc = "start"
    /\ rag_cause' = "no_results"
    /\ rag_return' = <<>>
    /\ rag_pc' = "returned"
    /\ UNCHANGED <<rag_urls, rag_crawled, rag_unsuccessful, ddg_pc,
                   ddg_results, ddg_formatted, ddg_cause>>
    /\ UNCHANGED nonRagVars

\* search_findzebra returned documents: their urls go to crawl_parallel
RagSearch ==
    /\ rag_pc = "start" /\ ddg_pc = "start"
    /\ \E U \in SUBSET URLs : U # {} /\ rag_urls' = U
    /\ rag_pc' = "crawl"
    /\ UNCHANGED <<rag_crawled, rag_unsuccessful, rag_cause, rag_return,
                   ddg_pc, ddg_results, ddg_formatted, ddg_cause>>
    /\ UNCHANGED nonRagVars

\* process_url: result.success, the document is appended to results
CrawlUrl ==
    /\ rag_pc = "crawl"
    /\ \E u \in rag_urls :
        /\ rag_urls' = rag_urls \ {u}
        /\ \E c \in DocChunks(u) :
               rag_crawled' = Append(rag_crawled, [url |-> u, chunk |-> c])
    /\ UNCHANGED <<rag_pc, rag_unsuccessful, rag_cause, rag_return, ddg_pc,
                   ddg_results, ddg_formatted, ddg_cause>>
    /\ UNCHANGED nonRagVars

\* process_url: not result.success, the failure is printed and the url dropped
CrawlUnsuccessful ==
    /\ rag_pc = "crawl"
    /\ \E u \in rag_urls :
        /\ rag_urls' = rag_urls \ {u}
        /\ rag_unsuccessful' = rag_unsuccessful \cup {u}
    /\ UNCHANGED <<rag_pc, rag_crawled, rag_cause, rag_return, ddg_pc,
                   ddg_results, ddg_formatted, ddg_cause>>
    /\ UNCHANGED nonRagVars

\* crawler.start(), one crawler.arun() or crawler.close() raises: gather
\* passes the exception on and the except of build_rag returns []
CrawlRaisesUncaught ==
    /\ rag_pc = "crawl"
    /\ rag_cause' = "crawl_raised"
    /\ rag_pc' = "raised"
    /\ UNCHANGED <<rag_urls, rag_crawled, rag_unsuccessful, rag_return,
                   ddg_pc, ddg_results, ddg_formatted, ddg_cause>>
    /\ UNCHANGED nonRagVars
CrawlRaises ==
    /\ rag_pc = "crawl"
    /\ rag_cause' = "crawl_raised"
    /\ rag_return' = <<>>
    /\ rag_pc' = "returned"
    /\ UNCHANGED <<rag_urls, rag_crawled, rag_unsuccessful, ddg_pc,
                   ddg_results, ddg_formatted, ddg_cause>>
    /\ UNCHANGED nonRagVars

\* every crawl is over: the documents are chunked, the chunks ranked and
\* returned
RagRank ==
    /\ rag_pc = "crawl"
    /\ rag_urls = {}
    /\ LET all == RagAllChunks
           order == SortedReverse(all)
       IN  rag_return' = [n \in 1..Len(all) |-> all[order[n]]]
    /\ rag_pc' = "returned"
    /\ UNCHANGED <<rag_urls, rag_crawled, rag_unsuccessful, rag_cause,
                   ddg_pc, ddg_results, ddg_formatted, ddg_cause>>
    /\ UNCHANGED nonRagVars

\* clean_text, chunk_text or the ranker raises: except, return []
RagProcessingRaises ==
    /\ rag_pc = "crawl"
    /\ rag_urls = {}
    /\ rag_crawled # <<>>
    /\ rag_cause' = "processing_raised"
    /\ rag_return' = <<>>
    /\ rag_pc' = "returned"
    /\ UNCHANGED <<rag_urls, rag_crawled, rag_unsuccessful, ddg_pc,
                   ddg_results, ddg_formatted, ddg_cause>>
    /\ UNCHANGED nonRagVars

\* search_duckduckgo: DDGS raises: except, return []
DdgSearchRaises ==
    /\ ddg_pc = "start" /\ rag_pc = "start"
    /\ ddg_cause' = "search_failed"
    /\ ddg_pc' = "returned"
    /\ UNCHANGED <<rag_pc, rag_urls, rag_crawled, rag_unsuccessful, rag_cause,
                   rag_return, ddg_results, ddg_formatted>>
    /\ UNCHANGED nonRagVars

\* search_duckduckgo: the results of ddgs.text
DdgSearch ==
    /\ ddg_pc = "start" /\ rag_pc = "start"
    /\ \E R \in ResultLists : ddg_results' = R
    /\ ddg_pc' = "fetch"
    /\ UNCHANGED <<rag_pc, rag_urls, rag_crawled, rag_unsuccessful, rag_cause,
                   rag_return, ddg_formatted, ddg_cause>>
    /\ UNCHANGED nonRagVars

\* fetch_webpage_content returns the content, or "" and an error message; the
\* result is appended either way
DdgFetch ==
    /\ ddg_pc = "fetch"
    /\ ddg_results # <<>>
    /\ \E err \in BOOLEAN :
           ddg_formatted' = Append(ddg_formatted,
                                   [link |-> Head(ddg_results), error |-> err])
    /\ ddg_results' = Tail(ddg_results)
    /\ UNCHANGED <<rag_pc, rag_urls, rag_crawled, rag_unsuccessful, rag_cause,
                   rag_return, ddg_pc, ddg_cause>>
    /\ UNCHANGED nonRagVars

\* something in the loop raises (save_html_content): except, return []
DdgLoopRaises ==
    /\ ddg_pc = "fetch"
    /\ ddg_results # <<>>
    /\ ddg_cause' = "processing_raised"
    /\ ddg_formatted' = <<>>
    /\ ddg_pc' = "returned"
    /\ UNCHANGED <<rag_pc, rag_urls, rag_crawled, rag_unsuccessful, rag_cause,
                   rag_return, ddg_results>>
    /\ UNCHANGED nonRagVars

\* return formatted_results
DdgReturn ==
    /\ ddg_pc = "fetch"
    /\ ddg_results = <<>>
    /\ ddg_pc' = "returned"
    /\ UNCHANGED <<rag_pc, rag_urls, rag_crawled, rag_unsuccessful, rag_cause,
                   rag_return, ddg_results, ddg_formatted, ddg_cause>>
    /\ UNCHANGED nonRagVars

NextRag ==
    \/ RagSearchFails
    \/ RagSearchEmpty
    \/ RagSearch
    \/ CrawlUrl
    \/ CrawlUnsuccessful
    \/ CrawlRaises
    \/ RagRank
    \/ RagProcessingRaises
    \/ DdgSearchRaises
    \/ DdgSearch
    \/ DdgFetch
    \/ DdgLoopRaises
    \/ DdgReturn

SpecRag == Init /\ [][NextRag]_vars

\* ------------------------------------------------------- validation_agent
\* validation_agent of agents.py over llm_chat of llm.py, called once for
\* each (statement, chunk) pair of a round.
Missing == "missing"
Unparsable == [valid |-> "unparsable", explanation |-> "unparsable"]

\* The three values the prompt asks for.
OracleVocabulary == {"True", "False", "Unclear"}

\* What the model may answer: get_schema("validation") is None, so no
\* response_format constrains the content.  A content that is no JSON, or a
\* JSON object with any value of 'valid', with or without either key.
Responses ==
    {Unparsable} \cup
    [valid : OracleVocabulary \cup {"Maybe", Missing},
     explanation : {"text", Missing}]

\* llm_chat: client.chat.completions.create raises (connection, timeout) or
\* json.loads raises on the content; nothing catches it.
LlmChatRaises ==
    /\ va_pc = "call"
    /\ va_k < MaxOracleCalls
    /\ va_pc' = "raised"
    /\ UNCHANGED <<va_k, va_response, va_results>>
    /\ UNCHANGED nonOracleVars

\* llm_chat: return json.loads(response.choices[0].message.content)
LlmChat ==
    /\ va_pc = "call"
    /\ va_k < MaxOracleCalls
    /\ \E r \in Responses :
        IF r = Unparsable
        THEN /\ va_pc' = "raised"
             /\ UNCHANGED va_response
        ELSE /\ va_pc' = "responded"
             /\ va_response' = r
    /\ UNCHANGED <<va_k, va_results>>
    /\ UNCHANGED nonOracleVars

\* validation_agent: return response['valid'], response['explanation'];
\* a missing key is a KeyError, any value of 'valid' is returned as it is.
ValidationReturn ==
    /\ va_pc = "responded"
    /\ IF va_response.valid = Missing \/ va_response.explanation = Missing
       THEN /\ va_pc' = "raised"
            /\ UNCHANGED <<va_k, va_results>>
       ELSE /\ va_results' = Append(va_results, va_response.valid)
            /\ va_k' = va_k + 1
            /\ va_pc' = "call"
    /\ UNCHANGED va_response
    /\ UNCHANGED nonOracleVars

\* every pair of the round has its verdict
RoundDone ==
    /\ va_pc = "call"
    /\ va_k = MaxOracleCalls
    /\ va_pc' = "done"
    /\ UNCHANGED <<va_k, va_response, va_results>>
    /\ UNCHANGED nonOracleVars

NextOracle ==
    \/ LlmChatRaises
    \/ LlmChat
    \/ ValidationReturn
    \/ RoundDone

SpecOracle == Init /\ [][NextOracle]_vars

\* --------------------------------------------------------- the chunkers
\* chunk_text of crawler.py and chunk_text of rag.py, on a text that is a
\* sequence of characters: a letter, a full stop, a space or a newline.
NL == "\n"
Chars == {"a", ".", " ", NL}
Texts == UNION {[1..n -> Chars] : n \in 0..MaxTextLen}
IsSpace(c) == c \in {" ", NL}

SetMin(S) == CHOOSE i \in S : \A j \in S : i <= j
SetMax(S) == CHOOSE i \in S : \A j \in S : i >= j

\* str.strip()
Strip(s) ==
    LET solid == {i \in 1..Len(s) : ~IsSpace(s[i])}
    IN  IF solid = {} THEN <<>> ELSE SubSeq(s, SetMin(solid), SetMax(solid))

\* text[start:end] of Python, with 0-based start and end
Slice(s, start, end) == SubSeq(s, start + 1, Min(end, Len(s)))

\* the 0-based positions where the two characters a b stand in s
Finds(s, a, b) == {i \in 0..(Len(s) - 2) : s[i + 1] = a /\ s[i + 2] = b}

\* s.rfind(a + b), for a string that holds it
RFind(s, a, b) == SetMax(Finds(s, a, b))

\* re.sub(r'\s+', ' ', text): every run of whitespace becomes one space
CollapseSpace(s) ==
    LET keep == {i \in 1..Len(s) : ~IsSpace(s[i]) \/ i = 1 \/ ~IsSpace(s[i - 1])}
        nth(n) == CHOOSE i \in keep : Cardinality({j \in keep : j < i}) = n - 1
    IN  [n \in 1..Cardinality(keep) |->
            IF IsSpace(s[nth(n)]) THEN " " ELSE s[nth(n)]]

\* text.replace('\n\n', '\n')
RECURSIVE ReplaceBreaks(_)
ReplaceBreaks(s) ==
    IF Len(s) < 2 THEN s
    ELSE IF s[1] = NL /\ s[2] = NL
         THEN <<NL>> \o ReplaceBreaks(SubSeq(s, 3, Len(s)))
         ELSE <<s[1]>> \o ReplaceBreaks(Tail(s))

\* clean_text of rag.py
CleanText(s) == Strip(ReplaceBreaks(CollapseSpace(s)))

\* text.split('\n\n')
RECURSIVE SplitBreaks(_)
SplitBreaks(s) ==
    IF Finds(s, NL, NL) = {} THEN <<s>>
    ELSE LET i == SetMin(Finds(s, NL, NL))
         IN  <<SubSeq(s, 1, i)>> \o SplitBreaks(SubSeq(s, i + 3, Len(s)))

\* [p.strip() for p in text.split('\n\n') if p.strip()]
Paragraphs(s) ==
    LET parts == SplitBreaks(s)
        solid == SelectSeq(parts, LAMBDA p : Strip(p) # <<>>)
    IN  [n \in 1..Len(solid) |-> Strip(solid[n])]

\* ' '.join(current_chunk)
RECURSIVE JoinSpace(_)
JoinSpace(ps) ==
    IF ps = <<>> THEN <<>>
    ELSE IF Len(ps) = 1 THEN ps[1]
    ELSE ps[1] \o <<" ">> \o JoinSpace(Tail(ps))

ChunkInit ==
    /\ MainInit /\ EngineInit /\ StoreInit /\ RagInit /\ RankIdle /\ OracleInit /\ CrawlInit /\ SearchInit /\ PubmedIdle /\ BaselineInit /\ GatherInit
    /\ ct_pc = "start"
    /\ ct_text \in Texts
    /\ ct_size \in {ChunkSize - 1, ChunkSize}
    /\ ct_start = 0
    /\ ct_chunks = <<>>
    /\ ct_cuts = {}
    /\ ct_paragraphs = <<>>
    /\ ct_current = <<>>
    /\ ct_current_size = 0

\* crawler.chunk_text is called: chunks = [], start = 0
CrawlerChunkText ==
    /\ ct_pc = "start"
    /\ ct_pc' = "crawler"
    /\ UNCHANGED <<ct_text, ct_size, ct_start, ct_chunks, ct_cuts,
                   ct_paragraphs, ct_current, ct_current_size>>
    /\ UNCHANGED nonChunkVars

\* the end the loop body of crawler.chunk_text chooses for the chunk that
\* starts at start: the last paragraph break of the window if it lies beyond
\* 30% of chunk_size; with no paragraph break in the window, the last
\* ". " if it lies beyond 30%; else the whole window
ChunkEnd(text, start, size) ==
    LET chunk == Slice(text, start, start + size)
    IN  IF Finds(chunk, NL, NL) # {}
        THEN IF 10 * RFind(chunk, NL, NL) > 3 * size
             THEN start + RFind(chunk, NL, NL)
             ELSE start + size
        ELSE IF Finds(chunk, ".", " ") # {}
             THEN IF 10 * RFind(chunk, ".", " ") > 3 * size
                  THEN start + RFind(chunk, ".", " ") + 1
                  ELSE start + size
             ELSE start + size

\* one pass of the while loop of crawler.chunk_text
CrawlerLoop ==
    /\ ct_pc = "crawler"
    /\ ct_start < Len(ct_text)
    /\ IF ct_start + ct_size >= Len(ct_text)
       THEN /\ ct_chunks' = Append(ct_chunks, Strip(Slice(ct_text, ct_start, Len(ct_text))))
            /\ ct_pc' = "returned"
            /\ UNCHANGED <<ct_start, ct_cuts>>
       ELSE LET end == ChunkEnd(ct_text, ct_start, ct_size)
                chunk == Strip(Slice(ct_text, ct_start, end))
            IN  /\ ct_chunks' = IF chunk # <<>> THEN Append(ct_chunks, chunk)
                                ELSE ct_chunks
                /\ ct_start' = end
                /\ ct_cuts' = ct_cuts \cup {end}
                /\ UNCHANGED ct_pc
    /\ UNCHANGED <<ct_text, ct_size, ct_paragraphs, ct_current, ct_current_size>>
    /\ UNCHANGED nonChunkVars

\* while start < text_length is false: return chunks
CrawlerReturn ==
    /\ ct_pc = "crawler"
    /\ ct_start >= Len(ct_text)
    /\ ct_pc' = "returned"
    /\ UNCHANGED <<ct_text, ct_size, ct_start, ct_chunks, ct_cuts,
                   ct_paragraphs, ct_current, ct_current_size>>
    /\ UNCHANGED nonChunkVars

\* rag.chunk_text is called: clean_text, then the split into paragraphs
RagChunkText ==
    /\ ct_pc = "start"
    /\ ct_paragraphs' = Paragraphs(CleanText(ct_text))
    /\ ct_pc' = "rag"
    /\ UNCHANGED <<ct_text, ct_size, ct_start, ct_chunks, ct_cuts,
                   ct_current, ct_current_size>>
    /\ UNCHANGED nonChunkVars

\* one pass of for paragraph in paragraphs
RagParagraph ==
    /\ ct_pc = "rag"
    /\ ct_paragraphs # <<>>
    /\ LET paragraph == Head(ct_paragraphs)
           over == ct_current_size + Len(paragraph) > ct_size
           chunks1 == IF over THEN Append(ct_chunks, JoinSpace(ct_current))
                      ELSE ct_chunks
           current1 == Append(IF over THEN <<>> ELSE ct_current, paragraph)
           size1 == (IF over THEN 0 ELSE ct_current_size) + Len(paragraph)
       IN  IF size1 > ct_size
           THEN /\ ct_chunks' = Append(chunks1, JoinSpace(current1))
                /\ ct_current' = <<>>
                /\ ct_current_size' = 0
           ELSE /\ ct_chunks' = chunks1
                /\ ct_current' = current1
                /\ ct_current_size' = size1
    /\ ct_paragraphs' = Tail(ct_paragraphs)
    /\ UNCHANGED <<ct_pc, ct_text, ct_size, ct_start, ct_cuts>>
    /\ UNCHANGED nonChunkVars

\* after the loop: the remaining content is merged into the previous chunk,
\* or is the only chunk; return chunks
RagRemaining ==
    /\ ct_pc = "rag"
    /\ ct_paragraphs = <<>>
    /\ ct_chunks' =
           IF ct_current = <<>> THEN ct_chunks
           ELSE IF Len(ct_chunks) > 0
                THEN Append(SubSeq(ct_chunks, 1, Len(ct_chunks) - 1),
                            ct_chunks[Len(ct_chunks)] \o <<" ">> \o JoinSpace(ct_current))
                ELSE Append(ct_chunks, JoinSpace(ct_current))
    /\ ct_pc' = "rag_returned"
    /\ UNCHANGED <<ct_text, ct_size, ct_start, ct_cuts, ct_paragraphs,
                   ct_current, ct_current_size>>
    /\ UNCHANGED nonChunkVars

NextChunk ==
    \/ CrawlerChunkText
    \/ CrawlerLoop
    \/ CrawlerReturn
    \/ RagChunkText
    \/ RagParagraph
    \/ RagRemaining

SpecChunk == ChunkInit /\ [][NextChunk]_vars

\* ------------------------------------------------------- crawl_parallel
\* crawl_parallel of rag.py: one process_url task for each url, all created
\* by gather, each inside async with semaphore.
InFlight == {u \in CrawlUrls : tasks[u] = "running"}

\* async with semaphore entered without waiting for a free slot
AcquireUnguarded(u) ==
    /\ tasks[u] = "waiting"
    /\ tasks' = [tasks EXCEPT ![u] = "running"]
    /\ semaphore' = semaphore - 1
    /\ UNCHANGED <<cp_pc, results>>
    /\ UNCHANGED nonCrawlVars

\* async with semaphore: the task enters when the value is positive and
\* calls crawler.arun
Acquire(u) ==
    /\ tasks[u] = "waiting"
    /\ semaphore > 0
    /\ tasks' = [tasks EXCEPT ![u] = "running"]
    /\ semaphore' = semaphore - 1
    /\ UNCHANGED <<cp_pc, results>>
    /\ UNCHANGED nonCrawlVars

\* crawler.arun returns with result.success: the document is appended and the
\* semaphore released
CrawlSuccess(u) ==
    /\ tasks[u] = "running"
    /\ tasks' = [tasks EXCEPT ![u] = "done"]
    /\ results' = Append(results, u)
    /\ semaphore' = semaphore + 1
    /\ UNCHANGED cp_pc
    /\ UNCHANGED nonCrawlVars

\* crawler.arun returns without success: the failure is printed and the
\* semaphore released
CrawlFailed(u) ==
    /\ tasks[u] = "running"
    /\ tasks' = [tasks EXCEPT ![u] = "failed"]
    /\ semaphore' = semaphore + 1
    /\ UNCHANGED <<cp_pc, results>>
    /\ UNCHANGED nonCrawlVars

\* crawler.arun raises: async with releases the semaphore and the exception
\* leaves the task
CrawlTaskRaises(u) ==
    /\ tasks[u] = "running"
    /\ tasks' = [tasks EXCEPT ![u] = "raised"]
    /\ semaphore' = semaphore + 1
    /\ UNCHANGED <<cp_pc, results>>
    /\ UNCHANGED nonCrawlVars

\* gather: every task has ended without an exception; return results
GatherReturns ==
    /\ cp_pc = "gather"
    /\ \A u \in CrawlUrls : tasks[u] \in {"done", "failed"}
    /\ cp_pc' = "returned"
    /\ UNCHANGED <<tasks, semaphore, results>>
    /\ UNCHANGED nonCrawlVars

\* gather: a task has raised; the exception leaves crawl_parallel while the
\* other tasks are not cancelled
GatherRaises ==
    /\ cp_pc = "gather"
    /\ \E u \in CrawlUrls : tasks[u] = "raised"
    /\ cp_pc' = "raised"
    /\ UNCHANGED <<tasks, semaphore, results>>
    /\ UNCHANGED nonCrawlVars

NextCrawl ==
    \/ \E u \in CrawlUrls : Acquire(u)
    \/ \E u \in CrawlUrls : CrawlSuccess(u)
    \/ \E u \in CrawlUrls : CrawlFailed(u)
    \/ \E u \in CrawlUrls : CrawlTaskRaises(u)
    \/ GatherReturns
    \/ GatherRaises

SpecCrawl == Init /\ [][NextCrawl]_vars

\* ------------------------------------------- search_findzebra (search.py)
\* A document of a response: its source_url, or none, and its title.
Docs == [source_url : URLs \cup {Missing}, title : 1..MaxDocs]
DocLists == UNION {[1..n -> Docs] : n \in 0..MaxDocs}

\* the loop over the documents of one response, without the test on seen_urls
RECURSIVE AddAllDocs(_, _)
AddAllDocs(acc, docs) ==
    IF docs = <<>> THEN acc
    ELSE LET doc == Head(docs)
         IN  IF doc.source_url = Missing
             THEN [acc EXCEPT !.raised = TRUE]
             ELSE AddAllDocs([acc EXCEPT !.all = Append(@, doc),
                                         !.seen = @ \cup {doc.source_url},
                                         !.read = @ \cup {doc.source_url}],
                             Tail(docs))

\* for doc in results['response']['docs']: a document whose source_url is
\* not in seen_urls is appended and its url added; doc['source_url'] of a
\* document without one raises KeyError and ends the loop
RECURSIVE AddUniqueDocs(_, _)
AddUniqueDocs(acc, docs) ==
    IF docs = <<>> THEN acc
    ELSE LET doc == Head(docs)
         IN  IF doc.source_url = Missing
             THEN [acc EXCEPT !.raised = TRUE]
             ELSE IF doc.source_url \notin acc.seen
                  THEN AddUniqueDocs([acc EXCEPT !.all = Append(@, doc),
                                                 !.seen = @ \cup {doc.source_url},
                                                 !.read = @ \cup {doc.source_url}],
                                     Tail(docs))
                  ELSE AddUniqueDocs([acc EXCEPT !.dup = TRUE,
                                                 !.read = @ \cup {doc.source_url}],
                                     Tail(docs))

\* requests.get, raise_for_status or response.json raises: the except prints
\* the error and the loop continues with the next variation
VariationFails ==
    /\ sf_pc = "loop"
    /\ sf_variation < QueryVariations
    /\ sf_variation' = sf_variation + 1
    /\ sf_failed' = sf_failed \cup {sf_variation + 1}
    /\ UNCHANGED <<sf_pc, all_results, seen_urls, sf_delivered, sf_duplicate>>
    /\ UNCHANGED nonSearchVars

\* the variation is answered: its documents go through the loop; a KeyError
\* inside the loop is caught like a failed request, the documents appended
\* before it stay
VariationAnswered ==
    /\ sf_pc = "loop"
    /\ sf_variation < QueryVariations
    /\ \E docs \in DocLists :
        LET acc == AddUniqueDocs([all |-> all_results, seen |-> seen_urls,
                                  read |-> sf_delivered, dup |-> sf_duplicate,
                                  raised |-> FALSE], docs)
        IN  /\ all_results' = acc.all
            /\ seen_urls' = acc.seen
            /\ sf_delivered' = acc.read
            /\ sf_duplicate' = acc.dup
            /\ sf_failed' = IF acc.raised THEN sf_failed \cup {sf_variation + 1}
                            ELSE sf_failed
    /\ sf_variation' = sf_variation + 1
    /\ UNCHANGED sf_pc
    /\ UNCHANGED nonSearchVars

\* return all_results
SearchReturns ==
    /\ sf_pc = "loop"
    /\ sf_variation = QueryVariations
    /\ sf_pc' = "returned"
    /\ UNCHANGED <<sf_variation, all_results, seen_urls, sf_failed,
                   sf_delivered, sf_duplicate>>
    /\ UNCHANGED nonSearchVars

NextSearch ==
    \/ VariationFails
    \/ VariationAnswered
    \/ SearchReturns

SpecSearch == Init /\ [][NextSearch]_vars

\* -------------------------------------------- search_pubmed_and_get_urls
\* The year of an article: the text of PubDate/Year, numbered from 1 in
\* string order; YearAbsent stands for "Year not available", set when the
\* element is absent; YearNone for None, the text of an empty element.
YearAbsent == 0
YearNone == -1
Years == (1..MaxYears) \cup {YearAbsent, YearNone}
Articles == [pmid : 1..MaxPmids, year : Years]
ArticleLists == UNION {[1..n -> Articles] : n \in 0..MaxArticles}

\* x.get('year', '0') compared as a string: the key 'year' is always set, and
\* "Year not available" is above every string of digits
YearKey(a) == IF a.year = YearAbsent THEN MaxYears + 1 ELSE a.year

\* articles.sort(key=..., reverse=True): descending by key, articles of equal
\* key in their order of arrival
SortByYear(L) ==
    LET place(i) == 1 + Cardinality({j \in 1..Len(L) :
                        \/ YearKey(L[j]) > YearKey(L[i])
                        \/ YearKey(L[j]) = YearKey(L[i]) /\ j < i})
    IN  [n \in 1..Len(L) |-> L[CHOOSE i \in 1..Len(L) : place(i) = n]]

\* the loop over articles that keeps the first article of each pmid
RECURSIVE FirstOfEachPmid(_, _)
FirstOfEachPmid(L, seen) ==
    IF L = <<>> THEN <<>>
    ELSE IF Head(L).pmid \in seen THEN FirstOfEachPmid(Tail(L), seen)
    ELSE <<Head(L)>> \o FirstOfEachPmid(Tail(L), seen \cup {Head(L).pmid})

PubmedInit ==
    /\ MainInit /\ EngineInit /\ StoreInit /\ RagInit /\ RankIdle /\ OracleInit /\ ChunkIdle /\ CrawlInit /\ SearchInit /\ BaselineInit /\ GatherInit
    /\ pm_pc = "sort"
    /\ articles \in ArticleLists
    /\ unique_articles = <<>>

\* articles.sort: comparing None with a string raises TypeError, outside
\* every try of the function
SortRaises ==
    /\ pm_pc = "sort"
    /\ Len(articles) >= 2
    /\ \E n \in 1..Len(articles) : articles[n].year = YearNone
    /\ pm_pc' = "raised"
    /\ UNCHANGED <<articles, unique_articles>>
    /\ UNCHANGED nonPubmedVars

\* articles.sort(key=lambda x: x.get('year', '0'), reverse=True)
SortArticles ==
    /\ pm_pc = "sort"
    /\ ~(Len(articles) >= 2 /\ \E n \in 1..Len(articles) : articles[n].year = YearNone)
    /\ articles' = SortByYear(articles)
    /\ pm_pc' = "unique"
    /\ UNCHANGED unique_articles
    /\ UNCHANGED nonPubmedVars

\* seen_pmids, unique_articles; return unique_articles[:max_results]
ReturnUnique ==
    /\ pm_pc = "unique"
    /\ unique_articles' = FirstOfEachPmid(articles, {})
    /\ pm_pc' = "returned"
    /\ UNCHANGED articles
    /\ UNCHANGED nonPubmedVars

NextPubmed ==
    \/ SortRaises
    \/ SortArticles
    \/ ReturnUnique

SpecPubmed == PubmedInit /\ [][NextPubmed]_vars

\* ------------------------------------------------- baseline.py, main()
\* The question loop of baseline.py, and the loop of main() of main.py
\* beside it, each with the CSV file it writes.

\* python baseline.py
RunBaseline ==
    /\ bl_pc = "start"
    /\ bl_pc' = "baseline"
    /\ UNCHANGED <<bl_idx, bl_results, bl_csv>>
    /\ UNCHANGED nonBaselineVars

\* python main.py
RunMain ==
    /\ bl_pc = "start"
    /\ bl_pc' = "main"
    /\ UNCHANGED <<bl_idx, bl_results, bl_csv>>
    /\ UNCHANGED nonBaselineVars

\* baseline.py, one pass of the loop: llm_chat answers and the result is
\* appended to results; nothing is written
BaselineAnswer ==
    /\ bl_pc = "baseline"
    /\ bl_idx < BaselineQuestions
    /\ \E a \in Candidates : bl_results' = Append(bl_results, a)
    /\ bl_idx' = bl_idx + 1
    /\ UNCHANGED <<bl_pc, bl_csv>>
    /\ UNCHANGED nonBaselineVars

\* baseline.py: llm_chat raises, or the response lacks 'chosen_answer' or
\* 'explanation'; nothing catches it and the script ends
BaselineRaises ==
    /\ bl_pc = "baseline"
    /\ bl_idx < BaselineQuestions
    /\ bl_pc' = "raised"
    /\ UNCHANGED <<bl_idx, bl_results, bl_csv>>
    /\ UNCHANGED nonBaselineVars

\* baseline.py after the loop: results_df.to_csv(csv_filename)
BaselineSave ==
    /\ bl_pc = "baseline"
    /\ bl_idx = BaselineQuestions
    /\ bl_csv' = bl_results
    /\ bl_pc' = "saved"
    /\ UNCHANGED <<bl_idx, bl_results>>
    /\ UNCHANGED nonBaselineVars

\* main(), one pass of the loop: process_question returns, the result is
\* appended and results_rag.csv rewritten
MainAnswer ==
    /\ bl_pc = "main"
    /\ bl_idx < BaselineQuestions
    /\ \E a \in Candidates :
        /\ bl_results' = Append(bl_results, a)
        /\ bl_csv' = Append(bl_results, a)
    /\ bl_idx' = bl_idx + 1
    /\ UNCHANGED bl_pc
    /\ UNCHANGED nonBaselineVars

\* main(): process_question raises; nothing catches it
MainRaises ==
    /\ bl_pc = "main"
    /\ bl_idx < BaselineQuestions
    /\ bl_pc' = "raised"
    /\ UNCHANGED <<bl_idx, bl_results, bl_csv>>
    /\ UNCHANGED nonBaselineVars

\* main(): the loop is over
MainLoopOver ==
    /\ bl_pc = "main"
    /\ bl_idx = BaselineQuestions
    /\ bl_pc' = "finished"
    /\ UNCHANGED <<bl_idx, bl_results, bl_csv>>
    /\ UNCHANGED nonBaselineVars

NextBaseline ==
    \/ RunBaseline
    \/ RunMain
    \/ BaselineAnswer
    \/ BaselineRaises
    \/ BaselineSave
    \/ MainAnswer
    \/ MainRaises
    \/ MainLoopOver

SpecBaseline == Init /\ [][NextBaseline]_vars

\* ------------------------------------------- gather_context_for_question
\* gather_context_for_question of crawler.py, called without excluded_terms.
\* The texts of documents and of stored chunks are numbered; a document and a
\* stored chunk of the same number have the same text.
GatherContents == 1..MaxContents
GatherDocLists == UNION {[1..n -> GatherContents] : n \in 0..MaxGatherDocs}

\* a row of match_chunks: a stored chunk and its similarity to the document
MatchedChunks == [content : GatherContents, similarity : 0..MaxSim]


\* any(chunk.content == content for chunk in scored_chunks), with content the
\* display_content of the document
SeenContent(doc) == \E n \in 1..Len(scored_chunks) : scored_chunks[n].content = doc

\* twice the combined score (embedding_score + keyword_score) / 2
CombinedScore(chunk) == chunk.similarity + gc_keyword_score[chunk.content]

\* scored_chunks.sort(key=combined_score, reverse=True): descending, chunks
\* of equal score in their order of arrival
SortByScore(L) ==
    LET place(i) == 1 + Cardinality({j \in 1..Len(L) :
                        \/ L[j].combined_score > L[i].combined_score
                        \/ L[j].combined_score = L[i].combined_score /\ j < i})
    IN  [n \in 1..Len(L) |-> L[CHOOSE i \in 1..Len(L) : place(i) = n]]

\* extract_keywords returns: the keyword score of every text is fixed
ExtractKeywords ==
    /\ gc_pc = "keywords"
    /\ \E f \in [GatherContents -> 0..1] : gc_keyword_score' = f
    /\ gc_pc' = "search"
    /\ UNCHANGED <<gc_docs, gc_i, scored_chunks, top_chunks>>
    /\ UNCHANGED nonGatherVars

\* extract_keywords or search_findzebra raises: the outer except returns []
GatherContextRaises ==
    /\ gc_pc \in {"keywords", "search"}
    /\ gc_pc' = "returned"
    /\ UNCHANGED <<gc_keyword_score, gc_docs, gc_i, scored_chunks, top_chunks>>
    /\ UNCHANGED nonGatherVars

\* search_findzebra returns its documents
SearchDocs ==
    /\ gc_pc = "search"
    /\ \E docs \in GatherDocLists : gc_docs' = docs
    /\ gc_pc' = "docs"
    /\ UNCHANGED <<gc_keyword_score, gc_i, scored_chunks, top_chunks>>
    /\ UNCHANGED nonGatherVars

\* one document is skipped: its display_content is the content of a scored
\* chunk
SkipDoc ==
    /\ gc_pc = "docs"
    /\ gc_i < Len(gc_docs)
    /\ SeenContent(gc_docs[gc_i + 1])
    /\ gc_i' = gc_i + 1
    /\ UNCHANGED <<gc_pc, gc_keyword_score, gc_docs, scored_chunks, top_chunks>>
    /\ UNCHANGED nonGatherVars

\* one document is embedded and matched: get_embedding or the rpc raises, or
\* no row comes back, and nothing is appended
MatchNothing ==
    /\ gc_pc = "docs"
    /\ gc_i < Len(gc_docs)
    /\ ~SeenContent(gc_docs[gc_i + 1])
    /\ gc_i' = gc_i + 1
    /\ UNCHANGED <<gc_pc, gc_keyword_score, gc_docs, scored_chunks, top_chunks>>
    /\ UNCHANGED nonGatherVars

\* one document is embedded and matched: the nearest stored chunk
\* (match_count 1) is scored and appended
MatchChunk ==
    /\ gc_pc = "docs"
    /\ gc_i < Len(gc_docs)
    /\ ~SeenContent(gc_docs[gc_i + 1])
    /\ \E chunk \in MatchedChunks :
           scored_chunks' = Append(scored_chunks,
                                   [content |-> chunk.content,
                                    combined_score |-> CombinedScore(chunk)])
    /\ gc_i' = gc_i + 1
    /\ UNCHANGED <<gc_pc, gc_keyword_score, gc_docs, top_chunks>>
    /\ UNCHANGED nonGatherVars

\* sort, top_chunks = scored_chunks[:3], return their contents
GatherContextReturns ==
    /\ gc_pc = "docs"
    /\ gc_i = Len(gc_docs)
    /\ scored_chunks' = SortByScore(scored_chunks)
    /\ top_chunks' = SubSeq(SortByScore(scored_chunks), 1,
                            Min(TopChunks, Len(scored_chunks)))
    /\ gc_pc' = "returned"
    /\ UNCHANGED <<gc_keyword_score, gc_docs, gc_i>>
    /\ UNCHANGED nonGatherVars

NextGather ==
    \/ ExtractKeywords
    \/ GatherContextRaises
    \/ SearchDocs
    \/ SkipDoc
    \/ MatchNothing
    \/ MatchChunk
    \/ GatherContextReturns

SpecGather == Init /\ [][NextGather]_vars

\* ------------------------------------------------------- terminal states
\* process_question is about to return its record.
Converged == pc = "return" /\ final_answer # "Unclear"
Exhausted == pc = "return" /\ final_answer = "Unclear"

\* Rounds of the current question: get_context_from_rag is called once and
\* its list is scanned once.
Rounds == IF pc \in {"loop", "return"} THEN 1 ELSE 0

\* The ceilings and the threshold the design document recommends.
FragmentCeiling == 10
RoundCeiling == 10
MinRounds == 5

\* ----------------------------------------------------------------- claims

\* Steps process_question can still take before it returns: a bound that
\* every step inside a question lowers.
SearchCost == MaxResults + 2
StepsLeft ==
    CASE pc = "context" -> 2 * BuildLimit + 4 + KeywordLimit * SearchCost
      [] pc = "search"  -> 2 * BuildLimit + 3 + unique_keywords * SearchCost
      [] pc = "results" -> 2 * BuildLimit + 4 + unique_keywords * SearchCost
                             + Len(search_results)
      [] pc = "embed"   -> BuildLimit + 2 + (Len(Limited(rag_chunks)) - i_build)
      [] pc = "loop"    -> 1 + (Len(all_chunks) - chunks_analyzed)
      [] OTHER          -> 0

InQuestion == pc \in {"context", "search", "results", "embed", "loop"}

\* C1: every question that is started ends CONVERGED or EXHAUSTED, whatever
\* the searches return (repeated urls included) and whatever answer_agent
\* answers, unless a collaborator raises instead of returning: inside a
\* question a step is always possible, every step lowers the bound StepsLeft,
\* and the bound is zero only in a terminal state, so there is no infinite loop.
C1_Terminates ==
    /\ [](InQuestion => ENABLED Next)
    /\ [][InQuestion =>
             /\ StepsLeft' < StepsLeft
             /\ StepsLeft' >= 0
             /\ (StepsLeft' = 0 => Converged' \/ Exhausted' \/ pc' = "aborted")]_vars

\* The last question ends EXHAUSTED after every chunk was analysed.
C1_Witness ==
    /\ Exhausted
    /\ idx = NumQuestions - 1
    /\ chunks_analyzed = Len(all_chunks)
    /\ chunks_analyzed > 1

\* C2 as stated: at most 10 analysed fragments and 10 rounds, and EXHAUSTED is
\* forced once a ceiling is reached.
C2_Original ==
    /\ chunks_analyzed <= FragmentCeiling
    /\ Rounds <= RoundCeiling
    /\ (pc = "return" /\ chunks_analyzed >= FragmentCeiling) => final_answer = "Unclear"

\* C2 as amended: at most 20 analysed fragments (10 when they come from the
\* cache), one retrieval and one pass per question, and the question is
\* EXHAUSTED only when every retrieved fragment was analysed.
C2_Amended ==
    /\ chunks_analyzed <= Len(all_chunks)
    /\ Len(all_chunks) <= BuildLimit
    /\ from_cache => Len(all_chunks) <= TopK
    /\ builds <= 1
    /\ Rounds <= 1
    /\ Exhausted => chunks_analyzed = Len(all_chunks)

\* Twenty fragments of a fresh build were analysed, the last one decisive.
C2_Witness ==
    /\ Converged
    /\ ~from_cache
    /\ chunks_analyzed = BuildLimit

\* C3 as stated: no two classified fragments share a source url.
C3_Original ==
    \A i, j \in 1..Len(classified) :
        i # j => classified[i].url # classified[j].url

\* C3 as amended: within a build no url is chunked twice, every element of the
\* retrieved list is classified at most once and in list order, and the
\* fragments of a fresh build are pairwise distinct (several of them may share
\* a source url).
C3_Amended ==
    /\ \A i, j \in 1..Len(chunked_urls) : i # j => chunked_urls[i] # chunked_urls[j]
    /\ classified = SubSeq(all_chunks, 1, chunks_analyzed)
    /\ ~from_cache =>
          \A i, j \in 1..Len(classified) : i # j => classified[i] # classified[j]

\* Two fragments of one source were classified for a question whose searches
\* returned both urls.
C3_Witness ==
    /\ pc = "return"
    /\ Len(chunked_urls) = 2
    /\ \E i, j \in 1..Len(classified) :
          i # j /\ classified[i].url = classified[j].url

\* C4: a decisive answer X of answer_agent at a fragment makes X the final
\* answer and ends the question CONVERGED, whatever research_agent reported
\* against the options in the same pass.
C4_DecisiveWins == Decisive(answer) => (Converged /\ final_answer = answer)

\* A is answered while research_agent reports counter-evidence against B.
C4_Witness ==
    /\ Converged
    /\ answer = "A"
    /\ counter_evidence = {"B"}

\* C5: once a decisive answer was given at a fragment, no further fragment is
\* classified and no retrieval is started for the question.
C5_StopsAtF ==
    [][final_answer # "Unclear" =>
          /\ pc = "return"
          /\ chunks_analyzed = Len(classified)
          /\ Len(classified') <= Len(classified)
          /\ builds' <= builds
          /\ pc' = "main"]_vars

\* A decisive answer at the second fragment leaves later fragments unclassified.
C5_Witness ==
    /\ Converged
    /\ chunks_analyzed = 2
    /\ Len(all_chunks) > 2
    /\ Len(classified) = 2

\* C6: when a round disproves every live candidate and finds no true verdict
\* the engine enters RESET, restores the full original candidate set and goes
\* on to the next round; it never terminates with, and never starts a round
\* with, zero live candidates.
C6_ResetRestores ==
    /\ []((state \in {"CONVERGED", "EXHAUSTED"}
              \/ epc \in {"check", "retrieve", "classify", "calls"})
          => live # {})
    /\ [][(epc = "endround" /\ live = {}) => state' = "RESET"]_vars
    /\ [][state = "RESET" =>
              /\ live' = Candidates
              /\ state' = "ACTIVE"
              /\ round' = round
              /\ epc' = "hardstop"]_vars
    /\ [][(epc = "hardstop" /\ fragments < MaxFragments /\ round < MaxRounds)
              => (epc' = "check" /\ live' = live)]_vars

\* A round disproved all its live candidates and the next round is about to
\* start with the full candidate set.
C6_Witness ==
    /\ epc = "check"
    /\ round >= 1
    /\ got_false = live_start
    /\ live = Candidates
    /\ state = "ACTIVE"

\* C7: after a round without a true verdict that did not disprove every live
\* candidate, the live set is the round's initial live set minus exactly the
\* candidates that got a false verdict (so a candidate with only unclear
\* verdicts stays live), and the state is ACTIVE while two or more are live.
C7_OnlyFalseKills ==
    (epc \in {"endround", "hardstop"} /\ got_false # live_start) =>
        /\ live = live_start \ got_false
        /\ (Cardinality(live) >= 2 => state = "ACTIVE")

\* Round 1 of the scenario: A and C false, B and D unclear.
C7_Witness ==
    /\ epc = "hardstop"
    /\ round = 1
    /\ live_start = Candidates
    /\ got_false = {"A", "C"}
    /\ live = {"B", "D"}
    /\ state = "ACTIVE"

\* C8: with exactly one live candidate after at least one completed round the
\* next check ends CONVERGED with that candidate and the justification
\* "selected by elimination"; no true verdict is needed.
C8_Elimination ==
    [][(epc = "check" /\ Cardinality(live) = 1 /\ round >= 1) =>
           /\ state' = "CONVERGED"
           /\ eanswer' \in live
           /\ justification' = "selected by elimination"
           /\ epc' = "done"]_vars

\* Round 2 of the scenario: D survived and is the answer, never confirmed.
C8_Witness ==
    /\ state = "CONVERGED"
    /\ justification = "selected by elimination"
    /\ eanswer = "D"
    /\ live = {"D"}
    /\ round = 2
    /\ first_true = None

\* C9 as stated: with an empty fragment list the question ends EXHAUSTED and
\* Unclear once the minimum number of rounds was reached.
C9_Original ==
    (pc = "return" /\ all_chunks = <<>>) =>
        (final_answer = "Unclear" /\ Rounds >= MinRounds)

\* C9 as amended: with an empty fragment list the question ends EXHAUSTED and
\* Unclear at once, after the single retrieval (one build, no retry, no minimum
\* number of rounds), and does not raise.
C9_Amended ==
    [][/\ (pc = "loop" /\ all_chunks = <<>>) =>
              (pc' = "return" /\ final_answer' = "Unclear")
       /\ (pc' = "return" /\ all_chunks' = <<>>) =>
              /\ pc = "loop"
              /\ final_answer' = "Unclear"
              /\ chunks_analyzed' = 0
              /\ builds' = 1
              /\ Rounds' = 1]_vars

\* A build that found nothing ended the question EXHAUSTED.
C9_Witness ==
    /\ Exhausted
    /\ all_chunks = <<>>
    /\ builds = 1
    /\ chunks_analyzed = 0

\* C10: when the concurrent classifier calls of one fragment return more than
\* one true verdict, the answer is the alphabetically first candidate holding
\* true, whatever the order in which the calls came back: one answer, fixed
\* by the set of verdicts alone.
C10_OrderIndependent ==
    (state = "CONVERGED" /\ justification = "direct") =>
        /\ eanswer \in Candidates
        /\ verdicts[eanswer] = "true"
        /\ \A d \in Candidates :
               verdicts[d] = "true" => Rank(eanswer) <= Rank(d)

\* Two true verdicts, and the answer is not the one that came back first.
C10_Witness ==
    /\ state = "CONVERGED"
    /\ justification = "direct"
    /\ Cardinality({c \in Candidates : verdicts[c] = "true"}) >= 2
    /\ first_true # eanswer

\* C14: an error raised while one question is processed does not abort the
\* run: the run is never stopped while questions remain to be processed.
C14_ErrorsIsolated == pc = "aborted" => idx >= NumQuestions

\* C17: the fragments of a question are classified in ranked order, by
\* non-increasing similarity to the question's query, whether they came from
\* the cache or from a fresh search (the single round of process_question is
\* complete before anything else starts).
C17_RankedOrder ==
    \A i, j \in 1..Len(classified) :
        i < j => Similarity(query_embedding, classified[i])
                     >= Similarity(query_embedding, classified[j])

\* C18: get_context_from_rag looks at the cache of the disease first: with a
\* usable cached entry it returns at most the top 10 cached fragments and
\* makes no call to the search provider; it builds from the search provider
\* only when the cache has no usable entry.
C18_CacheFirst ==
    /\ [](from_cache => builds = 0 /\ Len(all_chunks) <= TopK)
    /\ [][(pc = "context" /\ pc' \notin {"context", "aborted"}) =>
              IF dirs_exist /\ ValidEntries(query_embedding) # {}
              THEN /\ pc' = "loop"
                   /\ from_cache'
                   /\ builds' = builds
                   /\ all_chunks' # <<>>
                   /\ \A n \in 1..Len(all_chunks') :
                          \E i \in ValidEntries(query_embedding) :
                              all_chunks'[n] = chunk_files[i]
              ELSE /\ pc' = "search"
                   /\ builds' = builds + 1
                   /\ ~from_cache']_vars

\* More than ten usable entries were cached and ten were returned.
C18_Witness ==
    /\ pc = "loop"
    /\ from_cache
    /\ builds = 0
    /\ Cardinality(ValidEntries(query_embedding)) > TopK
    /\ Len(all_chunks) = TopK

\* C11 as stated: after the same key was written twice the cache holds one
\* entry for it, with the content of the later write.
C11_Original ==
    /\ \A k \in Keys : disk_chunks[k] = last_write[k]
    /\ \A n \in Keys :
           last_insert[n] # Absent => RowsOf(n) = {Row(n, last_insert[n])}

\* C11 as amended: the cache holds one entry for the key; in the files of
\* main.py it has the content of the later write, in the table of
\* insert_chunk the second write is a no-op and the row keeps the content of
\* the first write.
C11_Amended ==
    /\ \A k \in Keys : disk_chunks[k] = last_write[k]
    /\ \A n \in Keys :
           IF first_insert[n] = Absent
           THEN RowsOf(n) = {}
           ELSE RowsOf(n) = {Row(n, first_insert[n])}

\* insert_chunk was called for chunk 0 with x and then with y.
C11_Witness ==
    /\ first_insert[0] = "x"
    /\ last_insert[0] = "y"
    /\ RowsOf(0) = {Row(0, "x")}

\* C15: every vector in the cache has 1536 dimensions: a chunk whose embedding
\* has another dimension (or cannot be taken) is skipped, written nowhere and
\* not among the chunks returned.
C15_DeclaredDimension ==
    /\ [](/\ \A k \in Keys :
                 disk_embeddings[k] # NoEmbedding
                     => disk_embeddings[k].dim = EmbeddingDim
          /\ \A b \in Instances : \A n \in 1..Len(b_formatted[b]) :
                 b_formatted[b][n] \notin b_dropped[b])
    /\ [][(\E b \in Instances : b_dropped'[b] # b_dropped[b] /\ b_dropped'[b] # {})
              => UNCHANGED <<disk_chunks, disk_embeddings, b_formatted>>]_vars

\* An instance skipped its chunk 0 and stored and returned its chunk 1; no
\* other instance wrote.
C15_Witness ==
    /\ b_pc["p"] = "done"
    /\ b_pc["q"] = "idle"
    /\ b_dropped["p"] = {0}
    /\ b_formatted["p"] = <<1>>
    /\ disk_chunks[0] = Absent
    /\ disk_embeddings[0] = NoEmbedding
    /\ disk_embeddings[1].dim = EmbeddingDim

\* C19: in every state of the cache, also after a run that failed part-way,
\* a key has a chunk record exactly when it has a vector.
C19_PairsJoined ==
    \A k \in Keys : (disk_chunks[k] = Absent) <=> (disk_embeddings[k] = NoEmbedding)

RankedBySimilarity(p, L) ==
    /\ IsPermutation(p, Len(L))
    /\ \A n, m \in 1..Len(L) : n < m => L[p[n]].sim >= L[p[m]].sim

\* C16 as stated: both rankers order by non-increasing similarity and keep
\* chunks of equal similarity in insertion order.
C16_Original ==
    /\ rk_ranked # Unset =>
           /\ RankedBySimilarity(rk_ranked, rk_chunks)
           /\ \A n, m \in 1..Len(rk_chunks) :
                  (n < m /\ rk_chunks[rk_ranked[n]].sim = rk_chunks[rk_ranked[m]].sim)
                      => rk_ranked[n] < rk_ranked[m]
    /\ rk_sorted_indices # Unset =>
           /\ RankedBySimilarity(rk_sorted_indices, rk_chunks)
           /\ \A n, m \in 1..Len(rk_chunks) :
                  (n < m /\ rk_chunks[rk_sorted_indices[n]].sim
                                = rk_chunks[rk_sorted_indices[m]].sim)
                      => rk_sorted_indices[n] < rk_sorted_indices[m]

\* C16 as amended: both rankers order by non-increasing similarity;
\* rank_chunks_by_similarity puts chunks of equal similarity in descending
\* order of their text and keeps insertion order only for equal texts;
\* get_context_from_rag promises no order among equal similarities.
C16_Amended ==
    /\ rk_ranked # Unset =>
           /\ RankedBySimilarity(rk_ranked, rk_chunks)
           /\ \A n, m \in 1..Len(rk_chunks) :
                  (n < m /\ rk_chunks[rk_ranked[n]].sim = rk_chunks[rk_ranked[m]].sim)
                      => \/ rk_chunks[rk_ranked[n]].text > rk_chunks[rk_ranked[m]].text
                         \/ /\ rk_chunks[rk_ranked[n]].text = rk_chunks[rk_ranked[m]].text
                            /\ rk_ranked[n] < rk_ranked[m]
    /\ rk_sorted_indices # Unset =>
           RankedBySimilarity(rk_sorted_indices, rk_chunks)

\* Two chunks of equal similarity, the later one with the greater text, were
\* ranked with the later one first.
C16_Witness ==
    /\ Len(rk_chunks) = 3
    /\ rk_chunks[1].sim = rk_chunks[2].sim
    /\ rk_chunks[1].text < rk_chunks[2].text
    /\ rk_chunks[3].sim > rk_chunks[1].sim
    /\ rk_ranked = <<3, 2, 1>>
    /\ rk_sorted_indices # Unset

\* C12 as stated: when the search or fetch provider fails (the search raises,
\* any crawl or fetch fails) or gives no usable document, the retrieval
\* returns the empty list and raises nothing.
C12_Original ==
    /\ rag_pc # "raised" /\ ddg_pc # "raised"
    /\ rag_pc = "returned" =>
           ((rag_cause \in {"search_failed", "no_results", "crawl_raised"}
                 \/ rag_unsuccessful # {} \/ rag_crawled = <<>>)
               => rag_return = <<>>)
    /\ ddg_pc = "returned" =>
           ((ddg_cause = "search_failed"
                 \/ \E n \in 1..Len(ddg_formatted) : ddg_formatted[n].error)
               => ddg_formatted = <<>>)

\* C12 as amended: the retrieval raises nothing; it returns the empty list
\* when the search fails or finds nothing, when a crawl (or anything after
\* it) raises and when no document was crawled with success; a crawl that
\* ends without success only drops its document (build_rag), a fetch that
\* fails leaves an entry with its error (search_duckduckgo).
C12_Amended ==
    /\ rag_pc # "raised" /\ ddg_pc # "raised"
    /\ rag_pc = "returned" =>
           /\ (rag_cause # "none" \/ rag_crawled = <<>>) => rag_return = <<>>
           /\ \A n \in 1..Len(rag_return) :
                  /\ rag_return[n].url \notin rag_unsuccessful
                  /\ \E m \in 1..Len(rag_crawled) :
                         rag_crawled[m].url = rag_return[n].url
    /\ ddg_pc = "returned" =>
           /\ ddg_cause # "none" => ddg_formatted = <<>>
           /\ Len(ddg_formatted) <= MaxResults

\* One crawl ended without success and the chunk of the other document was
\* returned.
C12_Witness ==
    /\ rag_pc = "returned"
    /\ rag_unsuccessful = {"u1"}
    /\ Len(rag_return) = 1
    /\ rag_return[1].url = "u2"

\* C13: the classifier call never raises and returns only verdicts of the
\* three-value vocabulary; a response lacking a field or carrying another
\* verdict does not crash the round.
C13_OracleSafe ==
    /\ va_pc # "raised"
    /\ \A n \in 1..Len(va_results) : va_results[n] \in OracleVocabulary

\* A cut after the first c characters of the text does not fall inside a
\* sentence: it has only whitespace on one side, follows a full stop, or lies
\* in a gap that holds a paragraph break.
CleanCut(text, c) ==
    LET before == {i \in 1..c : ~IsSpace(text[i])}
        after == {i \in (c + 1)..Len(text) : ~IsSpace(text[i])}
    IN  \/ before = {}
        \/ after = {}
        \/ text[SetMax(before)] = "."
        \/ \E j \in Finds(text, NL, NL) :
               SetMax(before) < j + 1 /\ j + 2 < SetMin(after)

\* The 30% of the size limit below which crawler.chunk_text itself refuses
\* to end a chunk.
Undersized(chunk, size) == 10 * Len(chunk) <= 3 * size

\* C21: the chunker cuts the text only at paragraph boundaries and never in
\* the middle of a sentence, for any text and size limit.
C21_NoMidSentenceCut ==
    \A c \in ct_cuts : CleanCut(ct_text, c)

\* C22: the returned list never ends with an undersized fragment that
\* follows another chunk: the trailing chunk is merged backward.
C22_TrailingMerged ==
    (ct_pc \in {"returned", "rag_returned"} /\ Len(ct_chunks) >= 2)
        => ~Undersized(ct_chunks[Len(ct_chunks)], ct_size)

\* C24: every chunk chunk_text of rag.py returns is at most max_size
\* characters long.
C24_WithinMaxSize ==
    ct_pc = "rag_returned"
        => \A n \in 1..Len(ct_chunks) : Len(ct_chunks[n]) <= ct_size

\* C25: chunk_text of rag.py never emits an empty chunk, also when the first
\* paragraph alone is longer than max_size.
C25_NoEmptyChunk ==
    ct_pc \in {"rag", "rag_returned"}
        => \A n \in 1..Len(ct_chunks) : ct_chunks[n] # <<>>

\* C23: while the urls are crawled in parallel, the number of crawl calls in
\* flight never exceeds max_concurrent, whatever the number of urls and the
\* order of completion; the semaphore counts the free slots.
C23_ConcurrencyCap ==
    /\ Cardinality(InFlight) <= MaxConcurrent
    /\ semaphore = MaxConcurrent - Cardinality(InFlight)

\* The cap binds: max_concurrent crawls are in flight, a task waits, and a
\* crawl has already completed.
C23_Witness ==
    /\ Cardinality(InFlight) = MaxConcurrent
    /\ \E u \in CrawlUrls : tasks[u] = "waiting"
    /\ \E u \in CrawlUrls : tasks[u] \in {"done", "failed", "raised"}

\* C26: search_findzebra of search.py returns no two documents with the same
\* source_url; a variation that fails is skipped, the later variations are
\* still queried and the documents read so far are kept.
C26_UniqueResults ==
    /\ \A m, n \in 1..Len(all_results) :
           all_results[m].source_url = all_results[n].source_url => m = n
    /\ seen_urls = {all_results[n].source_url : n \in 1..Len(all_results)}
    /\ sf_delivered = seen_urls
    /\ sf_pc = "returned" => sf_variation = QueryVariations

\* The search returned after a variation failed, a later variation was
\* answered, and a document with a url already seen had been skipped.
C26_Witness ==
    /\ sf_pc = "returned"
    /\ sf_duplicate
    /\ 1 \in sf_failed
    /\ QueryVariations \notin sf_failed
    /\ Len(all_results) = 2

\* C27: the returned articles are sorted by publication year, newest first,
\* for every set of fetched articles: no article comes before an article of
\* a later year, and an article whose year is missing comes before no
\* article that has a year.
C27_NewestFirst ==
    /\ pm_pc # "raised"
    /\ pm_pc = "returned" =>
           \A m, n \in 1..Len(unique_articles) :
               m < n =>
                   LET a == unique_articles[m]
                       b == unique_articles[n]
                   IN  /\ (a.year \in 1..MaxYears /\ b.year \in 1..MaxYears)
                              => a.year >= b.year
                       /\ ~(a.year \notin 1..MaxYears /\ b.year \in 1..MaxYears)

\* C28: the results are saved to the CSV file after each response: once k
\* questions are answered the file holds their k rows, so a failure at the
\* next question loses none of them.
C28_SavedAfterEach ==
    bl_csv = bl_results

\* C29: gather_context_for_question returns at most 3 chunks, in
\* non-increasing order of combined score, no two of them with the same
\* content, also when several documents match the same stored chunk.
C29_TopDistinct ==
    gc_pc = "returned" =>
        /\ Len(top_chunks) <= TopChunks
        /\ \A n \in 1..(Len(top_chunks) - 1) :
               top_chunks[n].combined_score >= top_chunks[n + 1].combined_score
        /\ \A m, n \in 1..Len(top_chunks) :
               top_chunks[m].content = top_chunks[n].content => m = n

====
